---- MODULE Spec2Model ----
(***************************************************************************)
(* Technolize Organizer: the organization engine of organize_gui.py and    *)
(* organize_gui_riot.py (resolve_destination, ensure_unique_path,          *)
(* ensure_unique_dir, organize_folder, relocate_legacy_folders), modelled  *)
(* over an explicit tree of files and directories.                         *)
(*                                                                         *)
(* A file name is a sequence of tokens (<<"report", ".", "pdf">> is        *)
(* report.pdf); a token is either the dot or a dot-free piece of text, so  *)
(* that pathlib's stem/suffix split and str.lower() are computed, not      *)
(* assumed.  A path is a sequence of names relative to base_folder; <<>>   *)
(* is base_folder itself.  Entries are regular files and directories.      *)
(***************************************************************************)
EXTENDS FiniteSets, Integers, Sequences, TLC

VARIABLES fs, fs0, pc, listing, li, items, moves, trace, faulted, removed,
          rmfailed, call, run, first, procs, app

vars == <<fs, fs0, pc, listing, li, items, moves, trace, faulted, removed,
          rmfailed, call, run, first, procs, app>>

(***************************************************************************)
(* Bounds of the model.                                                    *)
(***************************************************************************)
MaxLeaves == 4
MaxNameLen == 3
MaxPureEntries == 3
MaxTwiceLeaves == 3
MaxRaceLeaves == 3
MaxPreviewLeaves == 3
MaxAppLeaves == 1
MaxClicks == 3
MaxRuns == 52

(***************************************************************************)
(* Names.                                                                  *)
(***************************************************************************)
Dot == "."

LowerToken(t) ==
  CASE t = "PDF" -> "pdf"
    [] t = "Pdf" -> "pdf"
    [] t = "JPG" -> "jpg"
    [] t = "Csv" -> "csv"
    [] t = "A" -> "a"
    [] OTHER -> t

\* variant: the extension is compared as spelled
lower_identity(s) == s

\* str.lower()
lower(s) == [i \in 1..Len(s) |-> LowerToken(s[i])]

\* str.rfind('.'), 1-based, 0 when there is no dot
rfind_dot(name) ==
  LET dots == {i \in 1..Len(name) : name[i] = Dot}
  IN IF dots = {} THEN 0 ELSE CHOOSE i \in dots : \A j \in dots : j <= i

\* PurePath.suffix: the part from the last dot, unless that dot is the first
\* or the last character of the name
suffix(name) ==
  LET i == rfind_dot(name)
  IN IF 1 < i /\ i < Len(name) THEN SubSeq(name, i, Len(name)) ELSE <<>>

\* PurePath.stem
stem(name) ==
  LET i == rfind_dot(name)
  IN IF 1 < i /\ i < Len(name) THEN SubSeq(name, 1, i - 1) ELSE name

\* f" ({counter})"
counter_text(counter) == " (" \o ToString(counter) \o ")"

(***************************************************************************)
(* Configuration tables.                                                   *)
(***************************************************************************)
Ext(w) == <<Dot, w>>

CATEGORY_MAP ==
  << [dest |-> << <<"Documents">>, <<"Excel">> >>,
      extensions |-> {Ext("xls"), Ext("xlsx"), Ext("xlsm"), Ext("xlsb"),
                      Ext("xltx"), Ext("csv")}],
     [dest |-> << <<"Documents">>, <<"Word">> >>,
      extensions |-> {Ext("doc"), Ext("docx"), Ext("odt"), Ext("rtf")}],
     [dest |-> << <<"Documents">>, <<"PDF">> >>,
      extensions |-> {Ext("pdf")}],
     [dest |-> << <<"Documents">>, <<"Text">> >>,
      extensions |-> {Ext("txt")}],
     [dest |-> << <<"Media">>, <<"Images">> >>,
      extensions |-> {Ext("jpg"), Ext("jpeg"), Ext("png"), Ext("gif"),
                      Ext("bmp"), Ext("tiff"), Ext("webp"), Ext("heic")}],
     [dest |-> << <<"Media">>, <<"Videos">> >>,
      extensions |-> {Ext("mp4"), Ext("mov"), Ext("avi"), Ext("mkv"),
                      Ext("wmv"), Ext("flv"), Ext("webm"), Ext("m4v")}] >>

\* variant: the table is walked from its last entry to its first
LEGACY_FOLDER_REMAP_reversed ==
  << [legacy_name |-> <<"Text">>, dest_rel |-> << <<"Documents">>, <<"Text">> >>],
     [legacy_name |-> <<"PDF">>, dest_rel |-> << <<"Documents">>, <<"PDF">> >>],
     [legacy_name |-> <<"Word">>, dest_rel |-> << <<"Documents">>, <<"Word">> >>],
     [legacy_name |-> <<"Excel">>, dest_rel |-> << <<"Documents">>, <<"Excel">> >>] >>

LEGACY_FOLDER_REMAP ==
  << [legacy_name |-> <<"Excel">>, dest_rel |-> << <<"Documents">>, <<"Excel">> >>],
     [legacy_name |-> <<"Word">>, dest_rel |-> << <<"Documents">>, <<"Word">> >>],
     [legacy_name |-> <<"PDF">>, dest_rel |-> << <<"Documents">>, <<"PDF">> >>],
     [legacy_name |-> <<"Text">>, dest_rel |-> << <<"Documents">>, <<"Text">> >>] >>

OTHER_FOLDER == << <<"Other">> >>

\* Python's None, as the result of resolve_destination
None == <<>>

(***************************************************************************)
(* The filesystem: a function from the existing paths to their nodes.      *)
(***************************************************************************)
base_folder == <<>>

Node(kind, id, orig) == [kind |-> kind, id |-> id, orig |-> orig]

\* Path.parent, Path.name
parent(p) == SubSeq(p, 1, Len(p) - 1)
name_of(p) == p[Len(p)]

IsPrefix(p, q) == Len(p) <= Len(q) /\ SubSeq(q, 1, Len(p)) = p

\* Path.exists()
exists(f, p) == p \in DOMAIN f

\* Path.is_dir()
is_dir(f, p) == p \in DOMAIN f /\ f[p].kind = "dir"

\* Path.iterdir(): the immediate children, as a set (the order is the
\* filesystem's choice)
iterdir(f, p) == {q \in DOMAIN f : Len(q) = Len(p) + 1 /\ IsPrefix(p, q)}

\* the proper prefixes of p and p itself, base_folder excluded
Prefixes(p) == {SubSeq(p, 1, k) : k \in 1..Len(p)}

\* the directories Path.mkdir(parents=True, exist_ok=True) has created once
\* it has dealt with the first k components of p
mkdir_upto(f, p, k) ==
  LET new == {q \in Prefixes(p) : Len(q) <= k /\ q \notin DOMAIN f}
  IN [q \in DOMAIN f \cup new |->
        IF q \in DOMAIN f THEN f[q] ELSE Node("dir", q, FALSE)]

\* Path.mkdir(parents=True, exist_ok=True): raises when a component of p
\* exists and is not a directory
mkdir(f, p) ==
  IF \E q \in Prefixes(p) : q \in DOMAIN f /\ f[q].kind # "dir"
  THEN [ok |-> FALSE, fs |-> f]
  ELSE [ok |-> TRUE, fs |-> mkdir_upto(f, p, Len(p))]

\* os.rename(src, dst) onto a path that is free or holds a file: the whole
\* subtree of src is re-rooted at dst; an entry at dst is replaced
rename(f, src, dst) ==
  LET moved == {q \in DOMAIN f : IsPrefix(src, q)}
      rebased(q) == dst \o SubSeq(q, Len(src) + 1, Len(q))
      kept == {q \in DOMAIN f : ~IsPrefix(src, q) /\ ~IsPrefix(dst, q)}
      landed == {rebased(q) : q \in moved}
  IN [r \in kept \cup landed |->
        IF r \in landed
        THEN f[CHOOSE q \in moved : rebased(q) = r]
        ELSE f[r]]

\* variant: the source is copied and left in place
copy_no_delete(f, src, dst) ==
  LET moved == {q \in DOMAIN f : IsPrefix(src, q)}
      rebased(q) == dst \o SubSeq(q, Len(src) + 1, Len(q))
      landed == {rebased(q) : q \in moved}
  IN [ok |-> TRUE,
      fs |-> [r \in DOMAIN f \cup landed |->
                IF r \in landed
                THEN f[CHOOSE q \in moved : rebased(q) = r]
                ELSE f[r]]]

\* shutil.move(src, dst)
shutil_move(f, src, dst) ==
  IF ~exists(f, src) \/ ~is_dir(f, parent(dst))
  THEN [ok |-> FALSE, fs |-> f]
  ELSE IF is_dir(f, dst)
  THEN LET real_dst == dst \o <<name_of(src)>>
       IN IF exists(f, real_dst)
          THEN [ok |-> FALSE, fs |-> f]
          ELSE [ok |-> TRUE, fs |-> rename(f, src, real_dst)]
  ELSE IF exists(f, dst) /\ is_dir(f, src)
  THEN [ok |-> FALSE, fs |-> f]
  ELSE [ok |-> TRUE, fs |-> rename(f, src, dst)]

\* Path.rmdir(): raises OSError unless the directory is empty
rmdir(f, p) ==
  IF is_dir(f, p) /\ iterdir(f, p) = {}
  THEN [ok |-> TRUE, fs |-> [q \in DOMAIN f \ {p} |-> f[q]]]
  ELSE [ok |-> FALSE, fs |-> f]

(***************************************************************************)
(* Path classifier and collision resolver.                                 *)
(***************************************************************************)
\* resolve_destination(file_path): the first category, in declaration order,
\* whose extension list holds the lower-cased suffix; None when there is none
resolve_destination(file_path) ==
  LET ext == lower(suffix(name_of(file_path)))
      hits == {i \in 1..Len(CATEGORY_MAP) : ext \in CATEGORY_MAP[i].extensions}
  IN IF hits = {} THEN None
     ELSE CATEGORY_MAP[CHOOSE i \in hits : \A j \in hits : i <= j].dest

\* variant: the counter is put after the extension
file_candidate_after_suffix(target, counter) ==
  parent(target) \o <<name_of(target) \o <<counter_text(counter)>>>>

\* parent / f"{stem} ({counter}){suffix}"
file_candidate(target, counter) ==
  parent(target) \o
    <<stem(name_of(target)) \o <<counter_text(counter)>> \o suffix(name_of(target))>>

\* parent / f"{target.name} ({counter})"
dir_candidate(target, counter) ==
  parent(target) \o <<name_of(target) \o <<counter_text(counter)>>>>

RECURSIVE unique_path_loop(_, _, _)
\* the while True loop of ensure_unique_path
unique_path_loop(f, target, counter) ==
  IF ~exists(f, file_candidate(target, counter))
  THEN file_candidate(target, counter)
  ELSE unique_path_loop(f, target, counter + 1)

RECURSIVE unique_dir_loop(_, _, _)
\* the while True loop of ensure_unique_dir
unique_dir_loop(f, target, counter) ==
  IF ~exists(f, dir_candidate(target, counter))
  THEN dir_candidate(target, counter)
  ELSE unique_dir_loop(f, target, counter + 1)

\* variant: the target is taken as given
ensure_unique_path_unchecked(f, target) == target

\* variant: the first candidate is taken without an existence check
ensure_unique_path_first_candidate(f, target) ==
  IF ~exists(f, target) THEN target ELSE file_candidate(target, 1)

\* variant: the counter starts at 2
ensure_unique_path_from_two(f, target) ==
  IF ~exists(f, target) THEN target ELSE unique_path_loop(f, target, 2)

ensure_unique_path(f, target) ==
  IF ~exists(f, target) THEN target ELSE unique_path_loop(f, target, 1)

\* variant: a directory target is taken as given
ensure_unique_dir_unchecked(f, target) == target

ensure_unique_dir(f, target) ==
  IF ~exists(f, target) THEN target ELSE unique_dir_loop(f, target, 1)

(***************************************************************************)
(* Initial folder contents: every choice of at most MaxLeaves entries of   *)
(* Catalog, with the directories above them.                               *)
(***************************************************************************)
F(p) == [path |-> p, kind |-> "file"]
D(p) == [path |-> p, kind |-> "dir"]

a_pdf == <<"a", Dot, "pdf">>
a_1_pdf == <<"a", " (1)", Dot, "pdf">>
x_d == <<"x", Dot, "d">>

Catalog ==
  { F(<<a_pdf>>), F(<<<<"b", Dot, "jpg">>>>),
    F(<<<<"d", Dot, "unknownext">>>>),
    F(<<<<"Other">>>>), F(<<<<"Documents">>>>),
    F(<<<<"Projects">>, a_pdf>>),
    F(<<<<"Documents">>, <<"PDF">>>>),
    F(<<<<"Documents">>, <<"PDF">>, a_pdf>>),
    F(<<<<"Documents">>, <<"PDF">>, a_1_pdf>>),
    D(<<<<"Documents">>, <<"PDF">>, x_d>>),
    F(<<<<"PDF">>, a_pdf>>),
    F(<<<<"PDF">>, x_d, <<"f", Dot, "txt">>>>),
    F(<<<<"Excel">>, <<"a", Dot, "xls">>>>),
    F(<<<<"Excel">>, <<"b", Dot, "xls">>>>) }

\* the tree holding the leaves L and the directories above them
Tree(L) ==
  LET dirs == {base_folder} \cup UNION {Prefixes(parent(l.path)) : l \in L}
              \cup {l.path : l \in {m \in L : m.kind = "dir"}}
      files == {l.path : l \in {m \in L : m.kind = "file"}}
  IN [q \in dirs \cup files |->
        Node(IF q \in files THEN "file" ELSE "dir", q, TRUE)]

\* no path is both a file and a directory
Consistent(L) ==
  \A l \in L : l.kind = "file" =>
     \A m \in L : m # l => ~IsPrefix(l.path, m.path)

InitialTrees ==
  {Tree(L) : L \in {M \in SUBSET Catalog : Cardinality(M) <= MaxLeaves /\ Consistent(M)}}

NoCall == [fn |-> "none", arg |-> <<>>, ret |-> <<>>]

\* no earlier run on the folder, no second invocation
NoFirst == [fs |-> <<>>, moves |-> <<>>, rmfailed |-> {}]
NoProcs == <<>>
\* no application state: organize_folder is called on its own
NoApp == <<>>

Init ==
  /\ fs0 \in InitialTrees
  /\ fs = fs0
  /\ faulted = FALSE
  /\ pc = "idle"
  /\ listing = <<>>
  /\ li = 1
  /\ items = <<>>
  /\ moves = <<>>
  /\ trace = <<>>
  /\ removed = {}
  /\ rmfailed = {}
  /\ call = NoCall
  /\ run = 1
  /\ first = NoFirst
  /\ app = NoApp
  /\ procs = NoProcs

(***************************************************************************)
(* organize_folder, top-level pass.                                        *)
(***************************************************************************)
RECURSIVE Orders(_)
\* the orders in which a directory listing can yield the entries S
Orders(S) ==
  IF S = {} THEN {<<>>}
  ELSE UNION {{<<x>> \o o : o \in Orders(S \ {x})} : x \in S}

Raise == pc' = "raised"

\* one performed move, with the filesystem it was decided on
Step(src, want, dst, pre, phase) ==
  [src |-> src, want |-> want, dst |-> dst, pre |-> pre, phase |-> phase]

\* for entry in base_folder.iterdir(): the listing is taken
OrganizeStart ==
  /\ pc = "idle"
  /\ listing' \in Orders(iterdir(fs, base_folder))
  /\ pc' = "top"
  /\ UNCHANGED <<fs, fs0, li, items, moves, trace, faulted, removed, rmfailed, call, run, first, procs, app>>

\* variant: directories are not skipped
skip_entry_never(f, entry) == FALSE

\* if entry.is_dir(): continue
skip_entry(f, entry) == is_dir(f, entry)

\* variant: every entry goes to the fallback folder
dest_folder_of_always_other(entry) == base_folder \o OTHER_FOLDER

\* base_folder / dest_root
dest_folder_of(entry) ==
  LET dest_subpath == resolve_destination(entry)
  IN base_folder \o (IF dest_subpath # None THEN dest_subpath ELSE OTHER_FOLDER)

\* variant: a skipped directory is put back at the end of the listing
TopSkipDir_requeues ==
  /\ pc = "top" /\ listing # <<>>
  /\ skip_entry(fs, Head(listing))
  /\ listing' = Tail(listing) \o <<Head(listing)>>
  /\ UNCHANGED <<fs, fs0, pc, li, items, moves, trace, faulted, removed, rmfailed, call, run, first, procs, app>>

TopSkipDir ==
  /\ pc = "top" /\ listing # <<>>
  /\ skip_entry(fs, Head(listing))
  /\ listing' = Tail(listing)
  /\ UNCHANGED <<fs, fs0, pc, li, items, moves, trace, faulted, removed, rmfailed, call, run, first, procs, app>>

\* variant: the pair is recorded the wrong way round
record_swapped(entry, target) == <<target, entry>>

\* moves.append((entry, target)): one record of the move log
record(entry, target) == <<entry, target>>

\* mkdir, ensure_unique_path, shutil.move, moves.append for one file
TopMove ==
  /\ pc = "top" /\ listing # <<>>
  /\ ~skip_entry(fs, Head(listing))
  /\ LET entry == Head(listing)
         dest_folder == dest_folder_of(entry)
         made == mkdir(fs, dest_folder)
         target == ensure_unique_path(made.fs, dest_folder \o <<name_of(entry)>>)
         done == shutil_move(made.fs, entry, target)
     IN /\ made.ok
        /\ fs' = done.fs
        /\ IF done.ok
           THEN /\ moves' = Append(moves, record(entry, target))
                /\ trace' = Append(trace, Step(entry, dest_folder \o <<name_of(entry)>>,
                                               target, made.fs, "top"))
                /\ listing' = Tail(listing)
                /\ pc' = pc
           ELSE Raise /\ UNCHANGED <<moves, trace, listing>>
  /\ UNCHANGED <<fs0, li, items, faulted, removed, rmfailed, call, run, first, procs, app>>

\* variant: the failure of one entry is caught and the loop continues
TopMkdirRaises_skips ==
  /\ pc = "top" /\ listing # <<>>
  /\ ~skip_entry(fs, Head(listing))
  /\ ~mkdir(fs, dest_folder_of(Head(listing))).ok
  /\ listing' = Tail(listing)
  /\ UNCHANGED <<fs, fs0, pc, li, items, moves, trace, faulted, removed, rmfailed, call, run, first, procs, app>>

\* dest_folder.mkdir(parents=True, exist_ok=True) raises: the run is aborted
TopMkdirRaises ==
  /\ pc = "top" /\ listing # <<>>
  /\ ~skip_entry(fs, Head(listing))
  /\ ~mkdir(fs, dest_folder_of(Head(listing))).ok
  /\ Raise
  /\ UNCHANGED <<fs, fs0, listing, li, items, moves, trace, faulted, removed, rmfailed, call, run, first, procs, app>>

\* a failure of the environment (permission, disk): mkdir fails after k
\* components, or shutil.move fails after the folder is made
TopFault ==
  /\ faulted' = TRUE
  /\ pc = "top" /\ listing # <<>>
  /\ ~skip_entry(fs, Head(listing))
  /\ mkdir(fs, dest_folder_of(Head(listing))).ok
  /\ \E k \in 0..Len(dest_folder_of(Head(listing))) :
        fs' = mkdir_upto(fs, dest_folder_of(Head(listing)), k)
  /\ Raise
  /\ UNCHANGED <<fs0, listing, li, items, moves, trace, removed, rmfailed, call, run, first, procs, app>>

\* relocate_legacy_folders(base_folder, moves) is entered
TopDone ==
  /\ pc = "top" /\ listing = <<>>
  /\ pc' = "legacy"
  /\ li' = 1
  /\ UNCHANGED <<fs, fs0, listing, items, moves, trace, faulted, removed, rmfailed, call, run, first, procs, app>>

(***************************************************************************)
(* relocate_legacy_folders.                                                *)
(***************************************************************************)
legacy_src_dir(i) == base_folder \o <<LEGACY_FOLDER_REMAP[i].legacy_name>>

\* variant: a legacy folder is folded into the next legacy folder of the table
legacy_dest_dir_chained(i) ==
  IF i < Len(LEGACY_FOLDER_REMAP)
  THEN legacy_src_dir(i + 1)
  ELSE base_folder \o LEGACY_FOLDER_REMAP[i].dest_rel

\* variant: every legacy folder is folded into Other
legacy_dest_dir_other(i) == base_folder \o OTHER_FOLDER

legacy_dest_dir(i) == base_folder \o LEGACY_FOLDER_REMAP[i].dest_rel

\* variant: the file naming is used for subdirectories too
legacy_target_always_file(f, item, dest_dir) ==
  ensure_unique_path(f, dest_dir \o <<name_of(item)>>)

\* ensure_unique_dir for a subdirectory, ensure_unique_path for a file
legacy_target(f, item, dest_dir) ==
  IF is_dir(f, item)
  THEN ensure_unique_dir(f, dest_dir \o <<name_of(item)>>)
  ELSE ensure_unique_path(f, dest_dir \o <<name_of(item)>>)

\* if not src_dir.exists() or not src_dir.is_dir(): continue
LegacySkip ==
  /\ pc = "legacy" /\ li <= Len(LEGACY_FOLDER_REMAP)
  /\ ~exists(fs, legacy_src_dir(li)) \/ ~is_dir(fs, legacy_src_dir(li))
  /\ li' = li + 1
  /\ UNCHANGED <<fs, fs0, pc, listing, items, moves, trace, faulted, removed, rmfailed, call, run, first, procs, app>>

\* dest_dir.mkdir(parents=True, exist_ok=True); list(src_dir.iterdir())
LegacyEnter ==
  /\ pc = "legacy" /\ li <= Len(LEGACY_FOLDER_REMAP)
  /\ exists(fs, legacy_src_dir(li)) /\ is_dir(fs, legacy_src_dir(li))
  /\ LET made == mkdir(fs, legacy_dest_dir(li))
     IN /\ made.ok
        /\ fs' = made.fs
        /\ items' \in Orders(iterdir(made.fs, legacy_src_dir(li)))
  /\ pc' = "items"
  /\ UNCHANGED <<fs0, listing, li, moves, trace, faulted, removed, rmfailed, call, run, first, procs, app>>

\* dest_dir.mkdir raises: the run is aborted
LegacyMkdirRaises ==
  /\ pc = "legacy" /\ li <= Len(LEGACY_FOLDER_REMAP)
  /\ exists(fs, legacy_src_dir(li)) /\ is_dir(fs, legacy_src_dir(li))
  /\ ~mkdir(fs, legacy_dest_dir(li)).ok
  /\ Raise
  /\ UNCHANGED <<fs, fs0, listing, li, items, moves, trace, faulted, removed, rmfailed, call, run, first, procs, app>>

\* one child of the legacy folder is moved under dest_dir
LegacyItem ==
  /\ pc = "items" /\ items # <<>>
  /\ LET item == Head(items)
         dest_dir == legacy_dest_dir(li)
         target == legacy_target(fs, item, dest_dir)
         done == shutil_move(fs, item, target)
     IN /\ fs' = done.fs
        /\ IF done.ok
           THEN /\ moves' = Append(moves, record(item, target))
                /\ trace' = Append(trace, Step(item, dest_dir \o <<name_of(item)>>,
                                               target, fs, "legacy"))
                /\ items' = Tail(items)
                /\ pc' = pc
           ELSE Raise /\ UNCHANGED <<moves, trace, items>>
  /\ UNCHANGED <<fs0, listing, li, faulted, removed, rmfailed, call, run, first, procs, app>>

\* a failure of the environment: dest_dir.mkdir fails after k components
LegacyEnterFault ==
  /\ faulted' = TRUE
  /\ pc = "legacy" /\ li <= Len(LEGACY_FOLDER_REMAP)
  /\ exists(fs, legacy_src_dir(li)) /\ is_dir(fs, legacy_src_dir(li))
  /\ mkdir(fs, legacy_dest_dir(li)).ok
  /\ \E k \in 0..(Len(legacy_dest_dir(li)) - 1) :
        fs' = mkdir_upto(fs, legacy_dest_dir(li), k)
  /\ Raise
  /\ UNCHANGED <<fs0, listing, li, items, moves, trace, removed, rmfailed, call, run, first, procs, app>>

\* a failure of the environment: shutil.move fails for a child
LegacyItemFault ==
  /\ faulted' = TRUE
  /\ pc = "items" /\ items # <<>>
  /\ Raise
  /\ UNCHANGED <<fs, fs0, listing, li, items, moves, trace, removed, rmfailed, call, run, first, procs, app>>

\* variant: the legacy folder is deleted with its content before it is drained
LegacyRmdir_rmtree ==
  /\ pc = "items"
  /\ fs' = [q \in {r \in DOMAIN fs : ~IsPrefix(legacy_src_dir(li), r)} |-> fs[q]]
  /\ removed' = removed \cup {legacy_src_dir(li)}
  /\ li' = li + 1
  /\ pc' = "legacy"
  /\ UNCHANGED <<fs0, listing, items, moves, trace, faulted, rmfailed, call, run, first, procs, app>>

\* try: src_dir.rmdir() except OSError: pass
LegacyRmdir ==
  /\ pc = "items" /\ items = <<>>
  /\ LET gone == rmdir(fs, legacy_src_dir(li))
     IN /\ fs' = gone.fs
        /\ IF gone.ok
           THEN removed' = removed \cup {legacy_src_dir(li)} /\ rmfailed' = rmfailed
           ELSE rmfailed' = rmfailed \cup {legacy_src_dir(li)} /\ removed' = removed
  /\ li' = li + 1
  /\ pc' = "legacy"
  /\ UNCHANGED <<fs0, listing, items, moves, trace, faulted, call, run, first, procs, app>>

\* variant: the OSError of src_dir.rmdir() is not caught
LegacyRmdirFault_raises ==
  /\ faulted' = TRUE
  /\ pc = "items" /\ items = <<>>
  /\ rmfailed' = rmfailed \cup {legacy_src_dir(li)}
  /\ Raise
  /\ UNCHANGED <<fs, fs0, listing, li, items, moves, trace, removed, call, run, first, procs, app>>

\* a failure of the environment: src_dir.rmdir() fails and is swallowed
LegacyRmdirFault ==
  /\ faulted' = TRUE
  /\ pc = "items" /\ items = <<>>
  /\ rmfailed' = rmfailed \cup {legacy_src_dir(li)}
  /\ li' = li + 1
  /\ pc' = "legacy"
  /\ UNCHANGED <<fs, fs0, listing, items, moves, trace, removed, call, run, first, procs, app>>

\* return moves
OrganizeReturn ==
  /\ pc = "legacy" /\ li > Len(LEGACY_FOLDER_REMAP)
  /\ pc' = "done"
  /\ UNCHANGED <<fs, fs0, listing, li, items, moves, trace, faulted, removed, rmfailed, call, run, first, procs, app>>

Next ==
  \/ OrganizeStart
  \/ TopSkipDir
  \/ TopMove
  \/ TopMkdirRaises
  \/ TopFault
  \/ TopDone
  \/ LegacySkip
  \/ LegacyEnter
  \/ LegacyMkdirRaises
  \/ LegacyItem
  \/ LegacyEnterFault
  \/ LegacyItemFault
  \/ LegacyRmdir
  \/ LegacyRmdirFault
  \/ OrganizeReturn

Spec == Init /\ [][Next]_vars

\* organize_folder runs on the calling thread until it returns or raises:
\* weak fairness of Next, WF_vars(Next), written out with the states in
\* which no step is enabled, which are the ones where the call has ended
SpecFair == Spec /\ ([]<>(pc \in {"done", "raised"}) \/ []<><<Next>>_vars)

(***************************************************************************)
(* organize_folder called a second time on the folder the first call left: *)
(* the caller starts a new run from the returned state, with a new log.    *)
(***************************************************************************)
InitTwice ==
  /\ fs0 \in {Tree(L) : L \in {M \in SUBSET Catalog :
                                Cardinality(M) <= MaxTwiceLeaves /\ Consistent(M)}}
  /\ fs = fs0
  /\ faulted = FALSE
  /\ pc = "idle"
  /\ listing = <<>>
  /\ li = 1
  /\ items = <<>>
  /\ moves = <<>>
  /\ trace = <<>>
  /\ removed = {}
  /\ rmfailed = {}
  /\ call = NoCall
  /\ run = 1
  /\ first = NoFirst
  /\ app = NoApp
  /\ procs = NoProcs

\* moves = organize_folder(base) once more, after the first call returned
OrganizeAgain ==
  /\ pc = "done" /\ run = 1
  /\ run' = 2
  /\ first' = [fs |-> fs, moves |-> moves, rmfailed |-> rmfailed]
  /\ fs0' = fs
  /\ pc' = "idle"
  /\ listing' = <<>>
  /\ li' = 1
  /\ items' = <<>>
  /\ moves' = <<>>
  /\ trace' = <<>>
  /\ faulted' = FALSE
  /\ removed' = {}
  /\ rmfailed' = {}
  /\ UNCHANGED <<fs, call, procs, app>>

NextTwice ==
  \/ OrganizeStart
  \/ TopSkipDir
  \/ TopMove
  \/ TopMkdirRaises
  \/ TopFault
  \/ TopDone
  \/ LegacySkip
  \/ LegacyEnter
  \/ LegacyMkdirRaises
  \/ LegacyItem
  \/ LegacyEnterFault
  \/ LegacyItemFault
  \/ LegacyRmdir
  \/ LegacyRmdirFault
  \/ OrganizeReturn
  \/ OrganizeAgain

SpecTwice == InitTwice /\ [][NextTwice]_vars

(***************************************************************************)
(* Two invocations of organize_folder on the same base folder at the same  *)
(* time.  Each invocation has its own listing, loop position, resolved     *)
(* target and log; the filesystem is shared and every filesystem call is   *)
(* one step, so the existence check of the resolver and the move that      *)
(* follows it are separate steps of an invocation.                         *)
(***************************************************************************)
Invocations == {1, 2}

RaceCatalog ==
  { F(<<a_pdf>>), F(<<a_1_pdf>>),
    F(<<<<"Documents">>, <<"PDF">>, a_pdf>>),
    F(<<<<"PDF">>, a_pdf>>) }

IdleProc ==
  [pc |-> "idle", listing |-> <<>>, li |-> 1, items |-> <<>>,
   target |-> <<>>, moves |-> <<>>]

InitRace ==
  /\ fs0 \in {Tree(L) : L \in {M \in SUBSET RaceCatalog : Cardinality(M) <= MaxRaceLeaves}}
  /\ fs = fs0
  /\ procs = [p \in Invocations |-> IdleProc]
  /\ pc = "race"
  /\ faulted = FALSE
  /\ listing = <<>>
  /\ li = 1
  /\ items = <<>>
  /\ moves = <<>>
  /\ trace = <<>>
  /\ removed = {}
  /\ rmfailed = {}
  /\ call = NoCall
  /\ run = 1
  /\ first = NoFirst
  /\ app = NoApp

\* one performed move of an invocation: the entry it carried and whether
\* the destination held an entry when the move was applied
RaceStep(p, src, dst, f) ==
  [by |-> p, src |-> src, dst |-> dst, node |-> f[src], clobbered |-> exists(f, dst)]

\* for entry in base_folder.iterdir(): the listing is taken
RaceStart ==
  \E p \in Invocations :
    /\ procs[p].pc = "idle"
    /\ \E order \in Orders(iterdir(fs, base_folder)) :
          procs' = [procs EXCEPT ![p].pc = "top", ![p].listing = order]
    /\ UNCHANGED <<fs, fs0, pc, listing, li, items, moves, trace, faulted,
                   removed, rmfailed, call, run, first, app>>

\* if entry.is_dir(): continue
RaceSkipDir ==
  \E p \in Invocations :
    /\ procs[p].pc = "top" /\ procs[p].listing # <<>>
    /\ skip_entry(fs, Head(procs[p].listing))
    /\ procs' = [procs EXCEPT ![p].listing = Tail(@)]
    /\ UNCHANGED <<fs, fs0, pc, listing, li, items, moves, trace, faulted,
                   removed, rmfailed, call, run, first, app>>

\* dest_folder.mkdir(...); target = ensure_unique_path(dest_folder / entry.name)
RaceResolve ==
  \E p \in Invocations :
    /\ procs[p].pc = "top" /\ procs[p].listing # <<>>
    /\ ~skip_entry(fs, Head(procs[p].listing))
    /\ LET entry == Head(procs[p].listing)
           dest_folder == dest_folder_of(entry)
           made == mkdir(fs, dest_folder)
       IN /\ fs' = made.fs
          /\ IF made.ok
             THEN procs' = [procs EXCEPT
                              ![p].pc = "moving",
                              ![p].target = ensure_unique_path(made.fs,
                                               dest_folder \o <<name_of(entry)>>)]
             ELSE procs' = [procs EXCEPT ![p].pc = "raised"]
    /\ UNCHANGED <<fs0, pc, listing, li, items, moves, trace, faulted,
                   removed, rmfailed, call, run, first, app>>

\* shutil.move(str(entry), target); moves.append((entry, target))
RaceMove ==
  \E p \in Invocations :
    /\ procs[p].pc = "moving"
    /\ LET entry == Head(procs[p].listing)
           target == procs[p].target
           done == shutil_move(fs, entry, target)
       IN /\ fs' = done.fs
          /\ IF done.ok
             THEN /\ procs' = [procs EXCEPT
                                 ![p].pc = "top",
                                 ![p].listing = Tail(@),
                                 ![p].moves = Append(@, record(entry, target))]
                  /\ trace' = Append(trace, RaceStep(p, entry, target, fs))
             ELSE /\ procs' = [procs EXCEPT ![p].pc = "raised"]
                  /\ trace' = trace
    /\ UNCHANGED <<fs0, pc, listing, li, items, moves, faulted,
                   removed, rmfailed, call, run, first, app>>

\* relocate_legacy_folders(base_folder, moves) is entered
RaceTopDone ==
  \E p \in Invocations :
    /\ procs[p].pc = "top" /\ procs[p].listing = <<>>
    /\ procs' = [procs EXCEPT ![p].pc = "legacy", ![p].li = 1]
    /\ UNCHANGED <<fs, fs0, pc, listing, li, items, moves, trace, faulted,
                   removed, rmfailed, call, run, first, app>>

\* if not src_dir.exists() or not src_dir.is_dir(): continue
RaceLegacySkip ==
  \E p \in Invocations :
    /\ procs[p].pc = "legacy" /\ procs[p].li <= Len(LEGACY_FOLDER_REMAP)
    /\ ~exists(fs, legacy_src_dir(procs[p].li)) \/ ~is_dir(fs, legacy_src_dir(procs[p].li))
    /\ procs' = [procs EXCEPT ![p].li = @ + 1]
    /\ UNCHANGED <<fs, fs0, pc, listing, li, items, moves, trace, faulted,
                   removed, rmfailed, call, run, first, app>>

\* src_dir exists and is a directory: dest_dir.mkdir(parents=True, exist_ok=True)
RaceLegacyEnter ==
  \E p \in Invocations :
    /\ procs[p].pc = "legacy" /\ procs[p].li <= Len(LEGACY_FOLDER_REMAP)
    /\ exists(fs, legacy_src_dir(procs[p].li)) /\ is_dir(fs, legacy_src_dir(procs[p].li))
    /\ LET made == mkdir(fs, legacy_dest_dir(procs[p].li))
       IN /\ fs' = made.fs
          /\ procs' = [procs EXCEPT ![p].pc = IF made.ok THEN "listing" ELSE "raised"]
    /\ UNCHANGED <<fs0, pc, listing, li, items, moves, trace, faulted,
                   removed, rmfailed, call, run, first, app>>

\* list(src_dir.iterdir()): raises when the folder is no longer there
RaceLegacyList ==
  \E p \in Invocations :
    /\ procs[p].pc = "listing"
    /\ IF is_dir(fs, legacy_src_dir(procs[p].li))
       THEN \E order \in Orders(iterdir(fs, legacy_src_dir(procs[p].li))) :
               procs' = [procs EXCEPT ![p].pc = "items", ![p].items = order]
       ELSE procs' = [procs EXCEPT ![p].pc = "raised"]
    /\ UNCHANGED <<fs, fs0, pc, listing, li, items, moves, trace, faulted,
                   removed, rmfailed, call, run, first, app>>

\* target = ensure_unique_dir / ensure_unique_path for one child
RaceLegacyResolve ==
  \E p \in Invocations :
    /\ procs[p].pc = "items" /\ procs[p].items # <<>>
    /\ procs' = [procs EXCEPT
                   ![p].pc = "imoving",
                   ![p].target = legacy_target(fs, Head(procs[p].items),
                                               legacy_dest_dir(procs[p].li))]
    /\ UNCHANGED <<fs, fs0, pc, listing, li, items, moves, trace, faulted,
                   removed, rmfailed, call, run, first, app>>

\* shutil.move(str(item), target); moves.append((item, target))
RaceLegacyMove ==
  \E p \in Invocations :
    /\ procs[p].pc = "imoving"
    /\ LET item == Head(procs[p].items)
           target == procs[p].target
           done == shutil_move(fs, item, target)
       IN /\ fs' = done.fs
          /\ IF done.ok
             THEN /\ procs' = [procs EXCEPT
                                 ![p].pc = "items",
                                 ![p].items = Tail(@),
                                 ![p].moves = Append(@, record(item, target))]
                  /\ trace' = Append(trace, RaceStep(p, item, target, fs))
             ELSE /\ procs' = [procs EXCEPT ![p].pc = "raised"]
                  /\ trace' = trace
    /\ UNCHANGED <<fs0, pc, listing, li, items, moves, faulted,
                   removed, rmfailed, call, run, first, app>>

\* try: src_dir.rmdir() except OSError: pass
RaceLegacyRmdir ==
  \E p \in Invocations :
    /\ procs[p].pc = "items" /\ procs[p].items = <<>>
    /\ fs' = rmdir(fs, legacy_src_dir(procs[p].li)).fs
    /\ procs' = [procs EXCEPT ![p].pc = "legacy", ![p].li = @ + 1]
    /\ UNCHANGED <<fs0, pc, listing, li, items, moves, trace, faulted,
                   removed, rmfailed, call, run, first, app>>

\* return moves
RaceReturn ==
  \E p \in Invocations :
    /\ procs[p].pc = "legacy" /\ procs[p].li > Len(LEGACY_FOLDER_REMAP)
    /\ procs' = [procs EXCEPT ![p].pc = "done"]
    /\ UNCHANGED <<fs, fs0, pc, listing, li, items, moves, trace, faulted,
                   removed, rmfailed, call, run, first, app>>

NextRace ==
  \/ RaceStart
  \/ RaceSkipDir
  \/ RaceResolve
  \/ RaceMove
  \/ RaceTopDone
  \/ RaceLegacySkip
  \/ RaceLegacyEnter
  \/ RaceLegacyList
  \/ RaceLegacyResolve
  \/ RaceLegacyMove
  \/ RaceLegacyRmdir
  \/ RaceReturn

SpecRace == InitRace /\ [][NextRace]_vars

(***************************************************************************)
(* preview_organization of the Riot variant, followed by organize_folder   *)
(* on the folder as the preview left it and with the listing order the     *)
(* preview saw.                                                            *)
(***************************************************************************)
PreviewCatalog == Catalog \cup {F(<<a_1_pdf>>)}

IdlePreview == [pc |-> "idle", listing |-> <<>>, order |-> <<>>, moves |-> <<>>]

InitPreview ==
  /\ fs0 \in {Tree(L) : L \in {M \in SUBSET PreviewCatalog :
                                Cardinality(M) <= MaxPreviewLeaves /\ Consistent(M)}}
  /\ fs = fs0
  /\ app = IdlePreview
  /\ faulted = FALSE
  /\ pc = "idle"
  /\ listing = <<>>
  /\ li = 1
  /\ items = <<>>
  /\ moves = <<>>
  /\ trace = <<>>
  /\ removed = {}
  /\ rmfailed = {}
  /\ call = NoCall
  /\ run = 1
  /\ first = NoFirst
  /\ procs = NoProcs

\* moves = []; for entry in base_folder.iterdir(): the listing is taken
PreviewStart ==
  /\ pc = "idle" /\ app.pc = "idle"
  /\ \E order \in Orders(iterdir(fs, base_folder)) :
        app' = [app EXCEPT !.pc = "loop", !.listing = order, !.order = order]
  /\ UNCHANGED <<fs, fs0, pc, listing, li, items, moves, trace, faulted,
                 removed, rmfailed, call, run, first, procs>>

\* if entry.is_dir(): continue
PreviewSkipDir ==
  /\ app.pc = "loop" /\ app.listing # <<>>
  /\ skip_entry(fs, Head(app.listing))
  /\ app' = [app EXCEPT !.listing = Tail(@)]
  /\ UNCHANGED <<fs, fs0, pc, listing, li, items, moves, trace, faulted,
                 removed, rmfailed, call, run, first, procs>>

\* variant: the destination folder is created as organize_folder does
PreviewEntry_mkdir ==
  /\ app.pc = "loop" /\ app.listing # <<>>
  /\ ~skip_entry(fs, Head(app.listing))
  /\ LET entry == Head(app.listing)
         dest_folder == dest_folder_of(entry)
         made == mkdir(fs, dest_folder)
         target == ensure_unique_path(made.fs, dest_folder \o <<name_of(entry)>>)
     IN /\ fs' = made.fs
        /\ app' = [app EXCEPT !.listing = Tail(@),
                              !.moves = Append(@, record(entry, target))]
  /\ UNCHANGED <<fs0, pc, listing, li, items, moves, trace, faulted,
                 removed, rmfailed, call, run, first, procs>>

\* target = ensure_unique_path(dest_folder / entry.name); moves.append(...)
PreviewEntry ==
  /\ app.pc = "loop" /\ app.listing # <<>>
  /\ ~skip_entry(fs, Head(app.listing))
  /\ LET entry == Head(app.listing)
         dest_folder == dest_folder_of(entry)
         target == ensure_unique_path(fs, dest_folder \o <<name_of(entry)>>)
     IN app' = [app EXCEPT !.listing = Tail(@),
                           !.moves = Append(@, record(entry, target))]
  /\ UNCHANGED <<fs, fs0, pc, listing, li, items, moves, trace, faulted,
                 removed, rmfailed, call, run, first, procs>>

\* return moves
PreviewReturn ==
  /\ app.pc = "loop" /\ app.listing = <<>>
  /\ app' = [app EXCEPT !.pc = "done"]
  /\ UNCHANGED <<fs, fs0, pc, listing, li, items, moves, trace, faulted,
                 removed, rmfailed, call, run, first, procs>>

\* organize_folder(folder) on the previewed folder: iterdir yields the
\* entries in the order the preview got them
OrganizeAfterPreview ==
  /\ pc = "idle" /\ app.pc = "done"
  /\ listing' = app.order
  /\ pc' = "top"
  /\ UNCHANGED <<fs, fs0, li, items, moves, trace, faulted, removed,
                 rmfailed, call, run, first, procs, app>>

NextPreview ==
  \/ PreviewStart
  \/ PreviewSkipDir
  \/ PreviewEntry
  \/ PreviewReturn
  \/ OrganizeAfterPreview
  \/ TopSkipDir
  \/ TopMove
  \/ TopMkdirRaises
  \/ TopFault
  \/ TopDone
  \/ LegacySkip
  \/ LegacyEnter
  \/ LegacyMkdirRaises
  \/ LegacyItem
  \/ LegacyEnterFault
  \/ LegacyItemFault
  \/ LegacyRmdir
  \/ LegacyRmdirFault
  \/ OrganizeReturn

SpecPreview == InitPreview /\ [][NextPreview]_vars

(***************************************************************************)
(* The Riot application: the main thread runs the handlers on_organize and *)
(* clear_history one at a time; every accepted on_organize starts a worker *)
(* thread that calls organize_folder, add_history (with save_history) and  *)
(* resets is_organizing.  A worker is an invocation of organize_folder as  *)
(* above, followed by its steps on the history.                            *)
(***************************************************************************)
HISTORY_CAP_RIOT == 50

AppCatalog == { F(<<a_pdf>>), F(<<<<"Other">>>>), F(<<<<"PDF">>, a_pdf>>) }

RECURSIVE path_str(_)
\* str(path): the components joined by the separator
path_str(p) ==
  IF p = <<>> THEN <<"base">> ELSE path_str(parent(p)) \o <<"/">> \o name_of(p)

RECURSIVE moves_json(_)
\* [{"src": str(src), "dest": str(dest)} for src, dest in run.get("moves", [])]
moves_json(ms) ==
  IF ms = <<>> THEN <<>>
  ELSE <<[src |-> path_str(Head(ms)[1]), dest |-> path_str(Head(ms)[2])]>>
         \o moves_json(Tail(ms))

\* one element of serializable
run_json(r) ==
  [label |-> r.label, base |-> path_str(r.base), moves |-> moves_json(r.moves)]

RECURSIVE serializable(_)
\* the list save_history builds from self.history
serializable(h) ==
  IF h = <<>> THEN <<>> ELSE <<run_json(Head(h))>> \o serializable(Tail(h))

\* variant: the new run is appended and the newest runs are dropped
insert_capped_append(h, entry, cap) ==
  LET grown == h \o <<entry>>
  IN IF Len(grown) > cap THEN SubSeq(grown, 1, cap) ELSE grown

\* history.insert(0, entry); if len(history) > cap: history = history[:cap]
insert_capped(h, entry, cap) ==
  LET grown == <<entry>> \o h
  IN IF Len(grown) > cap THEN SubSeq(grown, 1, cap) ELSE grown

UnstartedProc ==
  [pc |-> "unstarted", listing |-> <<>>, li |-> 1, items |-> <<>>,
   target |-> <<>>, moves |-> <<>>]

IdleApp ==
  [is_organizing |-> FALSE, main |-> "idle", history |-> <<>>, file |-> <<>>,
   msnap |-> <<>>, wsnap |-> [p \in Invocations |-> <<>>],
   clicks |-> 0, busy |-> 0]

InitApp ==
  /\ fs0 \in {Tree(L) : L \in {M \in SUBSET AppCatalog : Cardinality(M) <= MaxAppLeaves}}
  /\ fs = fs0
  /\ procs = [p \in Invocations |-> UnstartedProc]
  /\ app = IdleApp
  /\ pc = "app"
  /\ faulted = FALSE
  /\ listing = <<>>
  /\ li = 1
  /\ items = <<>>
  /\ moves = <<>>
  /\ trace = <<>>
  /\ removed = {}
  /\ rmfailed = {}
  /\ call = NoCall
  /\ run = 1
  /\ first = NoFirst

\* variant: on_organize without the is_organizing test
OnOrganizeAccepted_unguarded ==
  /\ app.main = "idle" /\ app.clicks < MaxClicks
  /\ \E p \in Invocations :
        /\ procs[p].pc = "unstarted"
        /\ \A q \in Invocations : q < p => procs[q].pc # "unstarted"
        /\ procs' = [procs EXCEPT ![p].pc = "idle"]
  /\ app' = [app EXCEPT !.is_organizing = TRUE, !.clicks = @ + 1]
  /\ UNCHANGED <<fs, fs0, pc, listing, li, items, moves, trace, faulted,
                 removed, rmfailed, call, run, first>>

\* on_organize, flag clear: is_organizing = True; Thread(...).start()
OnOrganizeAccepted ==
  /\ app.main = "idle" /\ app.clicks < MaxClicks
  /\ ~app.is_organizing
  /\ \E p \in Invocations :
        /\ procs[p].pc = "unstarted"
        /\ \A q \in Invocations : q < p => procs[q].pc # "unstarted"
        /\ procs' = [procs EXCEPT ![p].pc = "idle"]
  /\ app' = [app EXCEPT !.is_organizing = TRUE, !.clicks = @ + 1]
  /\ UNCHANGED <<fs, fs0, pc, listing, li, items, moves, trace, faulted,
                 removed, rmfailed, call, run, first>>

\* on_organize, flag set: showwarning("Busy", ...); return
OnOrganizeBusy ==
  /\ app.main = "idle" /\ app.clicks < MaxClicks
  /\ app.is_organizing
  /\ app' = [app EXCEPT !.clicks = @ + 1, !.busy = @ + 1]
  /\ UNCHANGED <<fs, fs0, pc, listing, li, items, moves, trace, faulted,
                 removed, rmfailed, call, run, first, procs>>

\* clear_history: self.history = []
ClearAssign ==
  /\ app.main = "idle"
  /\ app.history # <<>>
  /\ app' = [app EXCEPT !.history = <<>>, !.main = "cleared"]
  /\ UNCHANGED <<fs, fs0, pc, listing, li, items, moves, trace, faulted,
                 removed, rmfailed, call, run, first, procs>>

\* save_history on the main thread: serializable is built
ClearSnapshot ==
  /\ app.main = "cleared"
  /\ app' = [app EXCEPT !.msnap = serializable(app.history), !.main = "snapshot"]
  /\ UNCHANGED <<fs, fs0, pc, listing, li, items, moves, trace, faulted,
                 removed, rmfailed, call, run, first, procs>>

\* save_history on the main thread: json.dump(serializable, fh)
ClearWrite ==
  /\ app.main = "snapshot"
  /\ app' = [app EXCEPT !.file = app.msnap, !.main = "idle"]
  /\ UNCHANGED <<fs, fs0, pc, listing, li, items, moves, trace, faulted,
                 removed, rmfailed, call, run, first, procs>>

\* add_history on the worker: the entry is inserted and the list capped
WorkerInsert ==
  \E p \in Invocations :
    /\ procs[p].pc = "done"
    /\ procs' = [procs EXCEPT ![p].pc = "inserted"]
    /\ app' = [app EXCEPT !.history =
                 insert_capped(@, [label |-> p, base |-> base_folder,
                                   moves |-> procs[p].moves], HISTORY_CAP_RIOT)]
    /\ UNCHANGED <<fs, fs0, pc, listing, li, items, moves, trace, faulted,
                   removed, rmfailed, call, run, first>>

\* save_history on the worker: serializable is built
WorkerSnapshot ==
  \E p \in Invocations :
    /\ procs[p].pc = "inserted"
    /\ procs' = [procs EXCEPT ![p].pc = "snapshot"]
    /\ app' = [app EXCEPT !.wsnap[p] = serializable(app.history)]
    /\ UNCHANGED <<fs, fs0, pc, listing, li, items, moves, trace, faulted,
                   removed, rmfailed, call, run, first>>

\* save_history on the worker: json.dump(serializable, fh)
WorkerWrite ==
  \E p \in Invocations :
    /\ procs[p].pc = "snapshot"
    /\ procs' = [procs EXCEPT ![p].pc = "saved"]
    /\ app' = [app EXCEPT !.file = app.wsnap[p]]
    /\ UNCHANGED <<fs, fs0, pc, listing, li, items, moves, trace, faulted,
                   removed, rmfailed, call, run, first>>

\* variant: the flag is reset at the end of the try block only
WorkerFinally_on_success ==
  \E p \in Invocations :
    /\ procs[p].pc \in {"saved", "raised"}
    /\ procs' = [procs EXCEPT ![p].pc = "finished"]
    /\ app' = [app EXCEPT !.is_organizing = IF procs[p].pc = "saved" THEN FALSE ELSE @]
    /\ UNCHANGED <<fs, fs0, pc, listing, li, items, moves, trace, faulted,
                   removed, rmfailed, call, run, first>>

\* finally: self.is_organizing = False, after the return or the except
WorkerFinally ==
  \E p \in Invocations :
    /\ procs[p].pc \in {"saved", "raised"}
    /\ procs' = [procs EXCEPT ![p].pc = "finished"]
    /\ app' = [app EXCEPT !.is_organizing = FALSE]
    /\ UNCHANGED <<fs, fs0, pc, listing, li, items, moves, trace, faulted,
                   removed, rmfailed, call, run, first>>

WorkerStep ==
  \/ RaceStart
  \/ RaceSkipDir
  \/ RaceResolve
  \/ RaceMove
  \/ RaceTopDone
  \/ RaceLegacySkip
  \/ RaceLegacyEnter
  \/ RaceLegacyList
  \/ RaceLegacyResolve
  \/ RaceLegacyMove
  \/ RaceLegacyRmdir
  \/ RaceReturn
  \/ WorkerInsert
  \/ WorkerSnapshot
  \/ WorkerWrite
  \/ WorkerFinally

NextApp ==
  \/ OnOrganizeAccepted
  \/ OnOrganizeBusy
  \/ ClearAssign
  \/ ClearSnapshot
  \/ ClearWrite
  \/ RaceStart
  \/ RaceSkipDir
  \/ RaceResolve
  \/ RaceMove
  \/ RaceTopDone
  \/ RaceLegacySkip
  \/ RaceLegacyEnter
  \/ RaceLegacyList
  \/ RaceLegacyResolve
  \/ RaceLegacyMove
  \/ RaceLegacyRmdir
  \/ RaceReturn
  \/ WorkerInsert
  \/ WorkerSnapshot
  \/ WorkerWrite
  \/ WorkerFinally

SpecApp == InitApp /\ [][NextApp]_vars

\* the scheduler lets a started worker thread take its next step
SpecAppFair == SpecApp /\ WF_vars(WorkerStep)

(***************************************************************************)
(* The run history of both variants and the file they share.  One          *)
(* application at a time is open; closing it and opening either variant    *)
(* runs that variant's load_history on the file the other one left.        *)
(***************************************************************************)
HISTORY_CAP_GUI == 20

Variants == {"gui", "riot"}

history_cap(v) == IF v = "gui" THEN HISTORY_CAP_GUI ELSE HISTORY_CAP_RIOT

\* Path.home(), the base of a stored run without one
Home == <<<<"~">>>>

RECURSIVE split(_)
\* the text cut at its separators
split(s) ==
  IF \A i \in DOMAIN s : s[i] # "/" THEN <<s>>
  ELSE LET i == CHOOSE k \in DOMAIN s :
                  s[k] = "/" /\ \A j \in 1..(k - 1) : s[j] # "/"
       IN <<SubSeq(s, 1, i - 1)>> \o split(SubSeq(s, i + 1, Len(s)))

IsComponent(c) == c # <<>> /\ c # <<Dot>>

\* Path(text): the components after the root, empty and "." ones dropped
str_path(s) ==
  LET parts == split(s)
  IN SelectSeq(IF Head(parts) = <<"base">> THEN Tail(parts) ELSE parts, IsComponent)

RECURSIVE moves_list(_)
\* (Path(mv.get("src", "")), Path(mv.get("dest", ""))) for every stored move
moves_list(ms) ==
  IF ms = <<>> THEN <<>>
  ELSE << <<str_path(Head(ms).src), str_path(Head(ms).dest)>> >>
         \o moves_list(Tail(ms))

\* one element of loaded
loaded_run(r) ==
  [label |-> r.label,
   base  |-> IF r.base # <<>> THEN str_path(r.base) ELSE Home,
   moves |-> moves_list(r.moves)]

RECURSIVE loaded(_)
loaded(raw) ==
  IF raw = <<>> THEN <<>> ELSE <<loaded_run(Head(raw))>> \o loaded(Tail(raw))

\* loaded[:cap]
truncated(h, cap) == SubSeq(h, 1, IF Len(h) < cap THEN Len(h) ELSE cap)

NoFile == [fmt |-> "none"]

\* organize_gui.py save_history: {"theme": ..., "history": serializable}
save_history_gui(h, theme) ==
  [fmt |-> "dict", theme |-> theme, history |-> serializable(h)]

\* organize_gui_riot.py save_history: the bare list
save_history_riot(h) == [fmt |-> "list", runs |-> serializable(h)]

save_history(v, h, theme) ==
  IF v = "gui" THEN save_history_gui(h, theme) ELSE save_history_riot(h)

\* organize_gui.py load_history
load_history_gui(file) ==
  IF file.fmt = "none" THEN <<>>
  ELSE LET raw_runs == IF file.fmt = "dict" THEN file.history ELSE file.runs
       IN truncated(loaded(raw_runs), HISTORY_CAP_GUI)

\* variant: a reader that knows the bare list only
load_history_riot_list_only(file) ==
  IF file.fmt = "list" THEN truncated(loaded(file.runs), HISTORY_CAP_RIOT) ELSE <<>>

\* organize_gui_riot.py load_history
load_history_riot(file) ==
  IF file.fmt = "none" THEN <<>>
  ELSE LET raw_runs == IF file.fmt = "list" THEN file.runs ELSE file.history
       IN truncated(loaded(raw_runs), HISTORY_CAP_RIOT)

load_history(v, file) ==
  IF v = "gui" THEN load_history_gui(file) ELSE load_history_riot(file)

\* the theme load_history of organize_gui.py restores
stored_theme(file, default) ==
  IF file.fmt = "dict" /\ file.theme \in {"light", "dark"} THEN file.theme ELSE default

\* the run add_history records for the k-th organize of the session
Entry(k) ==
  [label |-> k,
   base  |-> IF k % 2 = 0 THEN base_folder ELSE <<<<"PDF">>>>,
   moves |-> IF k % 3 = 0 THEN <<>>
             ELSE IF k % 3 = 1 THEN << <<<<a_pdf>>, <<<<"Documents">>, <<"PDF">>, a_pdf>>>> >>
             ELSE << <<<<a_pdf>>, <<<<"Documents">>, <<"PDF">>, a_1_pdf>>>>,
                     <<<<<<"PDF">>, a_pdf>>, <<<<"Documents">>, <<"PDF">>, a_pdf>>>> >>]

InitHistory ==
  /\ \E v \in Variants :
       app = [variant |-> v, history |-> <<>>, file |-> NoFile, saved |-> <<>>,
              n |-> 0, theme |-> "light", last |-> "init"]
  /\ pc = "history"
  /\ fs0 = Tree({})
  /\ fs = fs0
  /\ faulted = FALSE
  /\ listing = <<>>
  /\ li = 1
  /\ items = <<>>
  /\ moves = <<>>
  /\ trace = <<>>
  /\ removed = {}
  /\ rmfailed = {}
  /\ call = NoCall
  /\ run = 1
  /\ first = NoFirst
  /\ procs = NoProcs

\* add_history of either variant: insert, cap, save_history
AddHistory ==
  /\ app.n < MaxRuns
  /\ LET h == insert_capped(app.history, Entry(app.n + 1), history_cap(app.variant))
     IN app' = [app EXCEPT !.history = h, !.n = @ + 1, !.saved = h,
                           !.file = save_history(app.variant, h, app.theme),
                           !.last = "add"]
  /\ UNCHANGED <<fs, fs0, pc, listing, li, items, moves, trace, faulted,
                 removed, rmfailed, call, run, first, procs>>

\* the application is closed and a variant is opened: __init__ calls load_history
OpenVariant ==
  /\ \E v \in Variants :
       app' = [app EXCEPT !.variant = v,
                          !.history = load_history(v, app.file),
                          !.theme = IF v = "gui" THEN stored_theme(app.file, "light")
                                    ELSE "light",
                          !.last = "load"]
  /\ UNCHANGED <<fs, fs0, pc, listing, li, items, moves, trace, faulted,
                 removed, rmfailed, call, run, first, procs>>

\* organize_gui_riot.py clear_history: self.history = []; save_history()
ClearHistory ==
  /\ app.variant = "riot"
  /\ app.history # <<>>
  /\ app' = [app EXCEPT !.history = <<>>, !.saved = <<>>,
                        !.file = save_history_riot(<<>>), !.last = "clear"]
  /\ UNCHANGED <<fs, fs0, pc, listing, li, items, moves, trace, faulted,
                 removed, rmfailed, call, run, first, procs>>

\* organize_gui.py toggle_theme: the theme flips and save_history runs
ToggleTheme ==
  /\ app.variant = "gui"
  /\ LET t == IF app.theme = "light" THEN "dark" ELSE "light"
     IN app' = [app EXCEPT !.theme = t, !.saved = app.history,
                           !.file = save_history_gui(app.history, t),
                           !.last = "theme"]
  /\ UNCHANGED <<fs, fs0, pc, listing, li, items, moves, trace, faulted,
                 removed, rmfailed, call, run, first, procs>>

NextHistory ==
  \/ AddHistory
  \/ OpenVariant
  \/ ClearHistory
  \/ ToggleTheme

SpecHistory == InitHistory /\ [][NextHistory]_vars

(***************************************************************************)
(* The classifier and the collision resolver called on their own: the      *)
(* argument is drawn from a bounded set, the result is kept in call.       *)
(***************************************************************************)
NameTokens == {Dot, "a", "pdf", "PDF", "jpg", "JPG", "xyz"}

NameInputs == UNION {[1..k -> NameTokens] : k \in 1..MaxNameLen}

PureFolder == << <<"Documents">>, <<"PDF">> >>

report_n(n) == <<"report", counter_text(n), Dot, "pdf">>

PureCatalog ==
  { F(PureFolder \o << <<"report", Dot, "pdf">> >>),
    F(PureFolder \o <<report_n(1)>>),
    F(PureFolder \o <<report_n(2)>>),
    F(PureFolder \o <<report_n(3)>>),
    F(PureFolder \o << <<"a", Dot, "tar", Dot, "gz">> >>),
    D(PureFolder \o << <<"Logs">> >>),
    D(PureFolder \o << <<"Logs", counter_text(1)>> >>),
    D(PureFolder \o <<x_d>>),
    F(PureFolder \o << <<"x", counter_text(1), Dot, "d">> >>) }

PureTargets ==
  {PureFolder \o <<n>> :
     n \in { <<"report", Dot, "pdf">>, report_n(1), <<"a", Dot, "tar", Dot, "gz">>,
             <<"Logs">>, x_d, <<Dot, "pdf">>, <<"notes">> }}

PureInit ==
  /\ fs0 \in {Tree(L) : L \in {M \in SUBSET PureCatalog : Cardinality(M) <= MaxPureEntries}}
  /\ fs = fs0
  /\ faulted = FALSE
  /\ pc = "pure"
  /\ listing = <<>>
  /\ li = 1
  /\ items = <<>>
  /\ moves = <<>>
  /\ trace = <<>>
  /\ removed = {}
  /\ rmfailed = {}
  /\ call = NoCall
  /\ run = 1
  /\ first = NoFirst
  /\ app = NoApp
  /\ procs = NoProcs

\* one call per behaviour: the classifier on a name
CallResolveDestination ==
  /\ pc = "pure" /\ call = NoCall
  /\ \E name \in NameInputs :
        call' = [fn |-> "resolve_destination", arg |-> <<name>>,
                 ret |-> resolve_destination(<<name>>)]
  /\ UNCHANGED <<fs, fs0, pc, listing, li, items, moves, trace, faulted, removed, rmfailed, run, first, procs, app>>

\* variant: the resolver reserves the name it returns by creating it
CallEnsureUniquePath_reserves ==
  /\ pc = "pure" /\ call = NoCall
  /\ \E target \in PureTargets :
        LET free == ensure_unique_path(fs, target)
        IN /\ call' = [fn |-> "ensure_unique_path", arg |-> target, ret |-> free]
           /\ fs' = [q \in DOMAIN fs \cup {free} |->
                       IF q = free THEN Node("file", free, FALSE) ELSE fs[q]]
  /\ UNCHANGED <<fs0, pc, listing, li, items, moves, trace, faulted, removed, rmfailed, run, first, procs, app>>

\* the file variant of the resolver on a target
CallEnsureUniquePath ==
  /\ pc = "pure" /\ call = NoCall
  /\ \E target \in PureTargets :
        call' = [fn |-> "ensure_unique_path", arg |-> target,
                 ret |-> ensure_unique_path(fs, target)]
  /\ UNCHANGED <<fs, fs0, pc, listing, li, items, moves, trace, faulted, removed, rmfailed, run, first, procs, app>>

\* the directory variant of the resolver on a target
CallEnsureUniqueDir ==
  /\ pc = "pure" /\ call = NoCall
  /\ \E target \in PureTargets :
        call' = [fn |-> "ensure_unique_dir", arg |-> target,
                 ret |-> ensure_unique_dir(fs, target)]
  /\ UNCHANGED <<fs, fs0, pc, listing, li, items, moves, trace, faulted, removed, rmfailed, run, first, procs, app>>

PureNext ==
  \/ CallResolveDestination
  \/ CallEnsureUniquePath
  \/ CallEnsureUniqueDir

SpecPure == PureInit /\ [][PureNext]_vars

(***************************************************************************)
(* Properties.                                                             *)
(***************************************************************************)
Range(q) == {q[i] : i \in DOMAIN q}

Sources == {trace[i].src : i \in DOMAIN trace}

Ended == pc \in {"done", "raised"}

\* where an entry originally at p is after the performed moves that took p
\* or a directory above p
Whereabouts(p) ==
  {p} \cup {trace[i].dst \o SubSeq(p, Len(trace[i].src) + 1, Len(p)) :
              i \in {j \in DOMAIN trace : IsPrefix(trace[j].src, p)}}

\* the entries at and beneath d
Subtree(f, d) == [q \in {r \in DOMAIN f : IsPrefix(d, r)} |-> f[q]]

TargetsWereFree == \A i \in DOMAIN trace : trace[i].dst \notin DOMAIN trace[i].pre

\* C1 as stated: every move targets a path that did not exist, and after the
\* run every entry that existed before it and is not itself a moved source is
\* at the same path with the same content
C1_Original ==
  /\ TargetsWereFree
  /\ Ended => \A p \in DOMAIN fs0 :
                 p \notin Sources => p \in DOMAIN fs /\ fs[p] = fs0[p]

\* C1 (amended): every move of a run targets a path that did not exist
\* immediately before it, and every entry that existed before the run and is
\* neither a moved source, nor inside a moved directory, nor a drained legacy
\* folder the run removed is at the same path with the same content
C1_NoOverwrite ==
  /\ TargetsWereFree
  /\ \A p \in DOMAIN fs0 :
        (p \notin removed /\ \A s \in Sources : ~IsPrefix(s, p))
           => p \in DOMAIN fs /\ fs[p] = fs0[p]

C1_Witness ==
  /\ pc = "done"
  /\ \E i \in DOMAIN trace :
        /\ trace[i].dst # trace[i].want
        /\ trace[i].want \in DOMAIN fs0
        /\ fs[trace[i].want] = fs0[trace[i].want]

\* C2: at every point of a run, ended or aborted, every file that existed
\* before the run is at exactly one path, its original one or the one its
\* move gave it, and no file content exists that was not there before
C2_NoFileLost ==
  /\ \A p \in DOMAIN fs0 :
        fs0[p].kind = "file" =>
           /\ Cardinality({q \in DOMAIN fs : fs[q] = fs0[p]}) = 1
           /\ \E q \in Whereabouts(p) : q \in DOMAIN fs /\ fs[q] = fs0[p]
  /\ \A q \in DOMAIN fs : fs[q].kind = "file" => fs[q] \in Range(fs0)

C2_Witness ==
  /\ pc = "raised"
  /\ Len(moves) >= 2
  /\ \E i \in DOMAIN trace : trace[i].phase = "legacy"

(***************************************************************************)
(* C3: the classifier, against names that end in a dot and an extension    *)
(* word.                                                                   *)
(***************************************************************************)
UpperCased == {<<"PDF", "pdf">>, <<"JPG", "jpg">>}

\* the spellings of an extension word that lower-case to it
Spellings(w) == {w} \cup {v \in NameTokens : <<v, w>> \in UpperCased}

\* name is a stem of at least lo tokens, a dot and an extension word of
\* category c in any spelling
HasExtensionOf(name, c, lo) ==
  /\ Len(name) >= lo + 2
  /\ name[Len(name) - 1] = Dot
  /\ \E e \in CATEGORY_MAP[c].extensions : name[Len(name)] \in Spellings(e[2])

Classifies(lo) ==
  call.fn = "resolve_destination" =>
    LET name == call.arg[1]
    IN /\ \A c \in DOMAIN CATEGORY_MAP :
            HasExtensionOf(name, c, lo) => call.ret = CATEGORY_MAP[c].dest
       /\ (\A c \in DOMAIN CATEGORY_MAP : ~HasExtensionOf(name, c, lo))
            => call.ret = None

\* C3 as stated: the part of the name from its last dot decides, so a name
\* that is nothing but a recognized extension (.pdf, .JPG) is classified too
C3_Original == Classifies(0)

\* C3 (amended): the suffix decides only when something precedes its dot; a
\* name whose only dot is its first character has no extension
C3_Classifier == Classifies(1)

C3_Witness ==
  /\ call.fn = "resolve_destination"
  /\ call.arg = << <<"a", Dot, "JPG">> >>
  /\ call.ret = << <<"Media">>, <<"Images">> >>

(***************************************************************************)
(* C4, C5, C8: the collision resolver.                                     *)
(***************************************************************************)
\* the result r of a resolver for target t on filesystem f is t when t is
\* free, else the candidate with the lowest counter that is free
LowestFree(f, t, r, Candidate(_, _)) ==
  /\ r \notin DOMAIN f
  /\ t \notin DOMAIN f => r = t
  /\ t \in DOMAIN f =>
        \E n \in 1..Cardinality(DOMAIN f) :
           /\ r = Candidate(t, n)
           /\ \A m \in 1..(n - 1) : Candidate(t, m) \in DOMAIN f

\* C4: ensure_unique_path and ensure_unique_dir return a free target
\* unchanged, else the candidate with the lowest counter N >= 1 that does not
\* exist; the returned path never exists
C4_LowestFree ==
  /\ call.fn = "ensure_unique_path" => LowestFree(fs, call.arg, call.ret, file_candidate)
  /\ call.fn = "ensure_unique_dir" => LowestFree(fs, call.arg, call.ret, dir_candidate)

C4_Witness ==
  /\ call.fn = "ensure_unique_path"
  /\ call.arg = PureFolder \o << <<"report", Dot, "pdf">> >>
  /\ call.ret = PureFolder \o << <<"report", " (2)", Dot, "pdf">> >>
  /\ PureFolder \o << <<"report", " (1)", Dot, "pdf">> >> \in DOMAIN fs

\* the names ' (N)' can give to an entry called nm: for a file with an
\* extension, between what precedes the last dot and that dot; else at the end
SuffixedNames(nm, kind, bound) ==
  LET splits == {i \in 2..(Len(nm) - 1) :
                   nm[i] = Dot /\ \A j \in (i + 1)..Len(nm) : nm[j] # Dot}
  IN IF kind = "file" /\ splits # {}
     THEN {SubSeq(nm, 1, i - 1) \o <<" (" \o ToString(n) \o ")">> \o SubSeq(nm, i, Len(nm)) :
             i \in splits, n \in 1..bound}
     ELSE {nm \o <<" (" \o ToString(n) \o ")">> : n \in 1..bound}

\* C5: a moved file is named as it was or with ' (N)' between stem and
\* extension, a moved directory as it was or with ' (N)' after its full
\* name; the top-level pass moves files only, legacy migration both
C5_CandidateNames ==
  \A i \in DOMAIN trace :
     LET t == trace[i]
         kind == t.pre[t.src].kind
     IN /\ t.phase = "top" => kind = "file"
        /\ parent(t.dst) = parent(t.want)
        /\ \/ t.dst = t.want
           \/ name_of(t.dst) \in
                SuffixedNames(name_of(t.src), kind, Cardinality(DOMAIN t.pre))

C5_Witness ==
  /\ pc = "done"
  /\ <<<< <<"PDF">>, x_d >>, << <<"Documents">>, <<"PDF">>, <<"x", Dot, "d", " (1)">> >>>>
        \in Range(moves)
  /\ <<<< <<"PDF">>, a_pdf >>, << <<"Documents">>, <<"PDF">>, <<"a", " (1)", Dot, "pdf">> >>>>
        \in Range(moves)

(***************************************************************************)
(* C6 - C10: the run as a whole.                                           *)
(***************************************************************************)
\* C6: with no injected permission or disk failure a run over a listable
\* base folder never raises, whatever the folder holds and however it is
\* listed
C6_NeverRaises == ~faulted => pc # "raised"

TopLevelFiles == {p \in iterdir(fs0, base_folder) : fs0[p].kind = "file"}

\* the folder the claim routes a top-level file to
RoutedFolder(p) ==
  IF resolve_destination(p) # None THEN base_folder \o resolve_destination(p)
  ELSE base_folder \o << <<"Other">> >>

\* the entry originally at p is now directly inside folder, under its own
\* name or, when that name was taken, a suffixed one
PlacedIn(p, folder) ==
  \E q \in iterdir(fs, folder) :
     /\ fs[q] = fs0[p]
     /\ \/ name_of(q) = name_of(p)
        \/ \E i \in DOMAIN trace :
              trace[i].src = p /\ trace[i].dst = q /\ trace[i].want \in DOMAIN trace[i].pre

\* C7: when a run without injected failure has ended, every top-level file
\* of the base folder is in baseFolder/<categoryPath> when the classifier
\* matches it and in baseFolder/Other otherwise, and the MoveLog has one
\* record per top-level file before the legacy records
C7_EveryTopLevelFileRouted ==
  (~faulted /\ Ended) =>
     /\ \A p \in TopLevelFiles : PlacedIn(p, RoutedFolder(p))
     /\ Cardinality({i \in DOMAIN trace : trace[i].phase = "top"})
          = Cardinality(TopLevelFiles)

\* C8: a top-level file whose name is taken in its destination folder gets
\* the candidate with the lowest free counter, and the entry that held the
\* name keeps its path and content
C8_CollisionKeepsBoth ==
  \A i \in DOMAIN trace :
     LET t == trace[i]
     IN (t.phase = "top" /\ t.want \in DOMAIN t.pre) =>
           /\ LowestFree(t.pre, t.want, t.dst, file_candidate)
           /\ t.dst # t.want
           /\ t.want \in DOMAIN fs /\ fs[t.want] = t.pre[t.want]

C8_Witness ==
  /\ pc = "done"
  /\ <<<<a_pdf>>, << <<"Documents">>, <<"PDF">>, <<"a", " (2)", Dot, "pdf">> >>>>
        \in Range(moves)
  /\ fs[<< <<"Documents">>, <<"PDF">>, a_pdf >>]
       = fs0[<< <<"Documents">>, <<"PDF">>, a_pdf >>]

LegacyNames == {<<"Excel">>, <<"Word">>, <<"PDF">>, <<"Text">>}

DestinationRoots == {<<"Documents">>, <<"Media">>, <<"Other">>}

\* the top-level directories the legacy migration does not fold
OtherDirectories ==
  {d \in iterdir(fs0, base_folder) :
     fs0[d].kind = "dir" /\ name_of(d) \notin LegacyNames}

\* C9 as stated: every top-level directory that is not a legacy folder is
\* left as it was, contents included, and nothing of it is a source
C9_Original ==
  \A d \in OtherDirectories :
     /\ Subtree(fs, d) = Subtree(fs0, d)
     /\ \A s \in Sources : ~IsPrefix(d, s)

\* C9 (amended): such a directory is never moved, renamed or recursed into,
\* what it held stays as it was and nothing of it is a source; it is left
\* wholly untouched unless it is a destination root (Documents, Media, Other),
\* which gains the category folders and the moved entries
C9_DirectoriesUntouched ==
  \A d \in OtherDirectories :
     /\ \A p \in DOMAIN Subtree(fs0, d) : p \in DOMAIN fs /\ fs[p] = fs0[p]
     /\ \A s \in Sources : ~IsPrefix(d, s)
     /\ name_of(d) \notin DestinationRoots => Subtree(fs, d) = Subtree(fs0, d)

C9_Witness ==
  /\ pc = "done"
  /\ Len(moves) >= 2
  /\ << <<"Projects">> >> \in OtherDirectories
  /\ << <<"Documents">> >> \in OtherDirectories
  /\ Subtree(fs, << <<"Documents">> >>) # Subtree(fs0, << <<"Documents">> >>)

\* where the claim folds each legacy folder
FoldedInto ==
  { << <<"Excel">>, << <<"Documents">>, <<"Excel">> >> >>,
    << <<"Word">>, << <<"Documents">>, <<"Word">> >> >>,
    << <<"PDF">>, << <<"Documents">>, <<"PDF">> >> >>,
    << <<"Text">>, << <<"Documents">>, <<"Text">> >> >> }

\* C10: after a successful run every immediate child of a legacy folder that
\* existed is directly under baseFolder/newPath, with what it held, and the
\* legacy folder is gone unless its removal failed
C10_LegacyFolded ==
  pc = "done" =>
     \A e \in FoldedInto :
        is_dir(fs0, <<e[1]>>) =>
           /\ \A c \in iterdir(fs0, <<e[1]>>) :
                 \E q \in iterdir(fs, e[2]) :
                    /\ fs[q] = fs0[c]
                    /\ \A r \in DOMAIN Subtree(fs0, c) :
                          fs[q \o SubSeq(r, Len(c) + 1, Len(r))] = fs0[r]
           /\ <<e[1]>> \notin rmfailed => <<e[1]>> \notin DOMAIN fs

C10_Witness ==
  /\ pc = "done"
  /\ ~faulted
  /\ << <<"Excel">>, <<"a", Dot, "xls">> >> \in DOMAIN fs0
  /\ << <<"Excel">>, <<"b", Dot, "xls">> >> \in DOMAIN fs0
  /\ << <<"Documents">>, <<"Excel">>, <<"a", Dot, "xls">> >> \in DOMAIN fs
  /\ << <<"Documents">>, <<"Excel">>, <<"b", Dot, "xls">> >> \in DOMAIN fs
  /\ << <<"Excel">> >> \notin DOMAIN fs
  /\ Len(moves) >= 3

\* ---------------------------------------------------------------------
\* C11: a directory disappears only in the step that removes a legacy
\* folder of the base folder, and that folder has no entries in the state
\* the removal is applied to; every path recorded as removed is a legacy
\* folder that is gone.
Vanishes(p) == fs[p] \notin {fs'[q] : q \in DOMAIN fs'}

C11_RemovedOnlyWhenDrained ==
  [][ /\ \A p \in DOMAIN fs :
           (fs[p].kind = "dir" /\ Vanishes(p))
             => /\ Len(p) = 1 /\ name_of(p) \in LegacyNames
                /\ iterdir(fs, p) = {}
                /\ p \in removed' \ removed
      /\ \A p \in removed' \ removed :
           is_dir(fs, p) /\ iterdir(fs, p) = {} /\ ~exists(fs', p) ]_vars

C11_Witness ==
  /\ pc = "done"
  /\ << <<"PDF">> >> \in removed
  /\ \E i \in DOMAIN trace : trace[i].src = << <<"PDF">>, x_d >>

\* ---------------------------------------------------------------------
\* C12: a legacy folder whose removal failed stays in place; the step in
\* which the removal fails changes neither the filesystem nor the move
\* log and goes on to the next entry of the remap table instead of
\* raising; a run that returns has moved every child of every legacy
\* folder, the ones after the failed removal included.
LegacyChildren == UNION {iterdir(fs0, <<n>>) : n \in {m \in LegacyNames : is_dir(fs0, <<m>>)}}

C12_RmdirFailureSwallowed ==
  /\ [](\A p \in rmfailed : is_dir(fs, p))
  /\ [](pc = "done" => LegacyChildren \subseteq Sources)
  /\ [][rmfailed' # rmfailed
          => (pc' = "legacy" /\ li' = li + 1 /\ fs' = fs /\ moves' = moves)]_vars

C12_Witness ==
  /\ pc = "done"
  /\ << <<"Excel">> >> \in rmfailed
  /\ \E i \in DOMAIN moves : moves[i][1] = << <<"PDF">>, a_pdf >>

\* ---------------------------------------------------------------------
\* C13: when the folder of the entry at hand cannot be created the next
\* step raises; the step that raises leaves the move log, the rest of the
\* listing and every existing entry as they are (at most the directories
\* of a partly created folder are new); nothing happens after the raise,
\* so no entry or legacy folder is processed and no log is returned; and
\* every move made before the failure is still in effect.
Blocked ==
  \/ /\ pc = "top" /\ listing # <<>>
     /\ ~is_dir(fs, Head(listing))
     /\ ~mkdir(fs, dest_folder_of(Head(listing))).ok
  \/ /\ pc = "legacy" /\ li <= Len(LEGACY_FOLDER_REMAP)
     /\ is_dir(fs, legacy_src_dir(li))
     /\ ~mkdir(fs, legacy_dest_dir(li)).ok

StillApplied ==
  \A i \in DOMAIN trace :
     /\ exists(fs, trace[i].dst)
     /\ fs[trace[i].dst] = trace[i].pre[trace[i].src]
     /\ moves[i] = <<trace[i].src, trace[i].dst>>

C13_FailureAborts ==
  /\ [](pc = "raised" => StillApplied)
  /\ [][pc # "raised"]_vars
  /\ [][Blocked => pc' = "raised"]_vars
  /\ [][pc' = "raised"
          => /\ moves' = moves /\ listing' = listing /\ items' = items
             /\ li' = li /\ removed' = removed
             /\ \A p \in DOMAIN fs : exists(fs', p) /\ fs'[p] = fs[p]
             /\ \A p \in DOMAIN fs' \ DOMAIN fs : fs'[p].kind = "dir"]_vars

C13_Witness ==
  /\ pc = "raised" /\ ~faulted
  /\ Len(moves) >= 1
  /\ Len(listing) >= 2
  /\ is_dir(fs, << <<"PDF">> >>) /\ iterdir(fs, << <<"PDF">> >>) # {}

\* ---------------------------------------------------------------------
\* C14: in the log a run returns, every record names as source a path of
\* the folder as it was before the run and as destination the path at
\* which that very entry is after the run; the sources are pairwise
\* distinct and are exactly the entries that are no longer at their path
\* (the topmost ones, a moved directory standing for its content); and the
\* records are in the order of the moves: the destination of an earlier
\* record exists when a later move is decided, never the other way round.
NodesOf(f) == {f[q] : q \in DOMAIN f}

Displaced ==
  {p \in DOMAIN fs0 : fs0[p] \in NodesOf(fs) /\ ~(exists(fs, p) /\ fs[p] = fs0[p])}

DisplacedRoots == {p \in Displaced : parent(p) \notin Displaced}

C14_MoveLogExact ==
  pc = "done" =>
    /\ Len(trace) = Len(moves)
    /\ \A i \in DOMAIN moves :
          /\ Len(moves[i]) = 2
          /\ exists(fs0, moves[i][1])
          /\ exists(fs, moves[i][2])
          /\ fs[moves[i][2]] = fs0[moves[i][1]]
    /\ {moves[i][1] : i \in DOMAIN moves} = DisplacedRoots
    /\ \A i, j \in DOMAIN moves :
          i < j => /\ moves[i][1] # moves[j][1]
                   /\ moves[i][2] \in DOMAIN trace[j].pre
                   /\ moves[j][2] \notin DOMAIN trace[i].pre

C14_Witness ==
  /\ pc = "done"
  /\ Len(moves) >= 3
  /\ \E i \in DOMAIN moves : is_dir(fs0, moves[i][1])
  /\ \E i \in DOMAIN moves : name_of(moves[i][2]) # name_of(moves[i][1])

\* ---------------------------------------------------------------------
\* C15: in the move log no record of a top-level file comes after a
\* record of a legacy child; records of legacy children are grouped by
\* folder in the order Excel, Word, PDF, Text; and every record appended
\* is for the head of what is left of the listing at hand, which is then
\* shortened by that head, so each group follows its directory listing.
DeclaredOrder == << <<"Excel">>, <<"Word">>, <<"PDF">>, <<"Text">> >>

RankOf(n) == CHOOSE k \in DOMAIN DeclaredOrder : DeclaredOrder[k] = n

IsLegacyRecord(r) == Len(r[1]) = 2 /\ r[1][1] \in LegacyNames

IsTopRecord(r) == Len(r[1]) = 1

C15_MoveLogOrder ==
  /\ [](\A i, j \in DOMAIN moves :
          i < j => /\ IsTopRecord(moves[i]) \/ IsLegacyRecord(moves[i])
                   /\ IsTopRecord(moves[j]) => IsTopRecord(moves[i])
                   /\ (IsLegacyRecord(moves[i]) /\ IsLegacyRecord(moves[j]))
                        => RankOf(moves[i][1][1]) <= RankOf(moves[j][1][1]))
  /\ [][moves' # moves
          => /\ Len(moves') = Len(moves) + 1
             /\ SubSeq(moves', 1, Len(moves)) = moves
             /\ \/ /\ pc = "top" /\ listing # <<>>
                   /\ moves'[Len(moves')][1] = Head(listing)
                   /\ listing' = Tail(listing)
                \/ /\ pc = "items" /\ items # <<>>
                   /\ moves'[Len(moves')][1] = Head(items)
                   /\ items' = Tail(items)]_vars
  /\ [][(pc = "top" /\ listing' # listing) => listing' = Tail(listing)]_vars
  /\ [][(pc = "items" /\ items' # items) => items' = Tail(items)]_vars

C15_Witness ==
  /\ pc = "done"
  /\ \E i, j, k \in DOMAIN moves :
        /\ i < j /\ j < k
        /\ IsTopRecord(moves[i])
        /\ IsLegacyRecord(moves[j]) /\ moves[j][1][1] = <<"Excel">>
        /\ IsLegacyRecord(moves[k]) /\ moves[k][1][1] = <<"PDF">>

\* ---------------------------------------------------------------------
\* C17: in the log a run returns, the destinations are pairwise distinct
\* and none of them is a path that existed before the run.
C17_DestinationsDistinct ==
  pc = "done" =>
    /\ \A i, j \in DOMAIN moves : i # j => moves[i][2] # moves[j][2]
    /\ \A i \in DOMAIN moves : ~exists(fs0, moves[i][2])

C17_Witness ==
  /\ pc = "done"
  /\ \E i, j \in DOMAIN trace :
        /\ i # j
        /\ trace[i].want = trace[j].want
        /\ moves[i][2] # moves[j][2]
  /\ \E i \in DOMAIN trace :
        exists(fs0, trace[i].want) /\ moves[i][2] # trace[i].want

\* ---------------------------------------------------------------------
\* C19: at every point of a run, a category folder exists only if it
\* existed before the run, or a top-level file of the folder is routed to
\* it, or it is the remap target of a legacy folder that existed; and a
\* run over a folder with no top-level file and no legacy folder leaves
\* the filesystem as it was.
CategoryFolders ==
  { << <<"Documents">>, <<"Excel">> >>, << <<"Documents">>, <<"Word">> >>,
    << <<"Documents">>, <<"PDF">> >>, << <<"Documents">>, <<"Text">> >>,
    << <<"Media">>, <<"Images">> >>, << <<"Media">>, <<"Videos">> >>,
    << <<"Other">> >> }

ExistingLegacy == {n \in LegacyNames : is_dir(fs0, <<n>>)}

OnDemand(c) ==
  \/ exists(fs0, c)
  \/ \E p \in TopLevelFiles : RoutedFolder(p) = c
  \/ \E n \in ExistingLegacy : c = << <<"Documents">>, n >>

C19_FoldersOnDemand ==
  /\ \A c \in CategoryFolders : exists(fs, c) => OnDemand(c)
  /\ (TopLevelFiles = {} /\ ExistingLegacy = {}) => fs = fs0

C19_Witness ==
  /\ pc = "done"
  /\ is_dir(fs, << <<"Documents">>, <<"Excel">> >>)
  /\ ~exists(fs0, << <<"Documents">> >>)
  /\ is_dir(fs, << <<"Media">>, <<"Images">> >>)
  /\ ~exists(fs, << <<"Other">> >>)
  /\ ~exists(fs, << <<"Documents">>, <<"PDF">> >>)

C19_WitnessNothingToDo ==
  /\ pc = "done"
  /\ TopLevelFiles = {} /\ ExistingLegacy = {}
  /\ Cardinality(DOMAIN fs0) >= 4

\* ---------------------------------------------------------------------
\* C20: after a call of resolve_destination, ensure_unique_path or
\* ensure_unique_dir the filesystem is the one the call was made on, and
\* the result of the resolver is the one it gives on any filesystem with
\* the same set of existing paths, whatever the entries at these paths are.
PathsOnly(f) == [q \in DOMAIN f |-> Node("dir", <<>>, FALSE)]

C20_NoSideEffects ==
  call # NoCall =>
    /\ fs = fs0
    /\ call.fn = "ensure_unique_path" => call.ret = ensure_unique_path(PathsOnly(fs0), call.arg)
    /\ call.fn = "ensure_unique_dir" => call.ret = ensure_unique_dir(PathsOnly(fs0), call.arg)

C20_Witness ==
  /\ call.fn = "ensure_unique_dir"
  /\ call.ret # call.arg
  /\ fs0[call.arg].kind = "file"
  /\ Cardinality(DOMAIN fs) >= 5

\* ---------------------------------------------------------------------
\* C16: in a second run on the folder a first run returned from, nothing
\* is moved at any point, so the log stays empty and no destination of
\* the first run is a source; without an injected failure the second run
\* does not raise; and when it returns with the same legacy folders
\* refusing removal as in the first run (none, when the first run had no
\* such failure) the filesystem is the one the first run left.
C16_SecondRunMovesNothing ==
  run = 2 =>
    /\ moves = <<>> /\ trace = <<>>
    /\ ~faulted => pc # "raised"
    /\ (pc = "done" /\ rmfailed = first.rmfailed) => fs = first.fs

C16_Witness ==
  /\ run = 2 /\ pc = "done"
  /\ Len(first.moves) >= 2
  /\ \E i \in DOMAIN first.moves : Len(first.moves[i][1]) = 2
  /\ rmfailed = first.rmfailed
  /\ Cardinality(iterdir(fs, base_folder)) >= 2

\* ---------------------------------------------------------------------
\* C18: with two invocations on one base folder, a file of the folder is
\* gone from the filesystem only where a move of one invocation landed on
\* the destination that a move of the other invocation had filled before,
\* both having resolved that destination as free; and an invocation has
\* raised only where the entry it was about to move is gone, because the
\* other invocation moved it or because it was a legacy folder the other
\* invocation drained and removed, or where the legacy folder it was about
\* to list is gone.  The witnesses show that both kinds of state are
\* reached.
Pending(p) ==
  IF procs[p].listing # <<>> THEN Head(procs[p].listing) ELSE Head(procs[p].items)

Overwrote(i, j) ==
  /\ i < j
  /\ trace[i].by # trace[j].by
  /\ trace[i].dst = trace[j].dst
  /\ trace[j].clobbered

C18_OnlyRacesHurt ==
  /\ \A q \in DOMAIN fs0 :
        (fs0[q].kind = "file" /\ fs0[q] \notin NodesOf(fs))
          => \E i, j \in DOMAIN trace : Overwrote(i, j) /\ trace[i].node = fs0[q]
  /\ \A i \in DOMAIN trace :
        trace[i].clobbered => \E h \in DOMAIN trace : Overwrote(h, i)
  /\ \A p \in Invocations :
        procs[p].pc = "raised"
          => \/ /\ procs[p].listing # <<>> \/ procs[p].items # <<>>
                /\ ~exists(fs, Pending(p))
                /\ \/ \E i \in DOMAIN trace : trace[i].by # p /\ trace[i].src = Pending(p)
                   \/ Len(Pending(p)) = 1 /\ name_of(Pending(p)) \in LegacyNames
             \/ /\ procs[p].listing = <<>> /\ procs[p].items = <<>>
                /\ ~exists(fs, legacy_src_dir(procs[p].li))

\* both invocations resolved the same free target for two different files
\* and both moves were made: one file replaced the other
C18_Witness ==
  \E i, j \in DOMAIN trace :
     /\ Overwrote(i, j)
     /\ trace[i].src # trace[j].src
     /\ trace[i].node \notin NodesOf(fs)
     /\ fs[trace[j].dst] = trace[j].node

\* both invocations resolved a target for the same source; the second move
\* found the source gone
C18_WitnessSourceGone ==
  \E p \in Invocations :
     /\ procs[p].pc = "raised"
     /\ procs[p].listing # <<>>
     /\ \E i \in DOMAIN trace :
           /\ trace[i].by # p
           /\ trace[i].src = Head(procs[p].listing)
           /\ trace[i].dst = procs[p].target

\* ---------------------------------------------------------------------
\* C21: whenever a child of a legacy folder is moved and a top-level file
\* of the same name is routed to the same destination folder, the
\* top-level file was moved before it under the same wanted path; the
\* legacy child gets the suffixed name with the lowest free counter, which
\* is ' (1)' with the top-level file under the plain name when neither
\* name existed before the run; and both files are where they were put.
SuffixedPath(t, n) ==
  parent(t) \o
    <<CHOOSE nm \in SuffixedNames(name_of(t), "file", n) :
         nm \notin SuffixedNames(name_of(t), "file", n - 1)>>

C21_TopLevelBeforeLegacy ==
  \A j \in DOMAIN trace :
     LET c == trace[j]
     IN (/\ c.phase = "legacy"
         /\ \E p \in TopLevelFiles :
               name_of(p) = name_of(c.src) /\ RoutedFolder(p) = parent(c.want))
        => \E i \in 1..(j - 1) :
              LET t == trace[i]
              IN /\ t.phase = "top"
                 /\ t.src = <<name_of(c.src)>>
                 /\ t.want = c.want
                 /\ c.dst # c.want
                 /\ LowestFree(c.pre, c.want, c.dst, SuffixedPath)
                 /\ (c.want \notin DOMAIN fs0 /\ SuffixedPath(c.want, 1) \notin DOMAIN fs0)
                      => (t.dst = t.want /\ c.dst = SuffixedPath(c.want, 1))
                 /\ exists(fs, t.dst) /\ fs[t.dst] = fs0[t.src]
                 /\ exists(fs, c.dst) /\ fs[c.dst] = fs0[c.src]

C21_Witness ==
  /\ pc = "done"
  /\ ~exists(fs0, << <<"Documents">> >>)
  /\ exists(fs0, <<a_pdf>>) /\ exists(fs0, << <<"PDF">>, a_pdf >>)
  /\ exists(fs, << <<"Documents">>, <<"PDF">>, a_pdf >>)
  /\ exists(fs, << <<"Documents">>, <<"PDF">>, a_1_pdf >>)
  /\ fs[<< <<"Documents">>, <<"PDF">>, a_pdf >>] = fs0[<<a_pdf>>]
  /\ fs[<< <<"Documents">>, <<"PDF">>, a_1_pdf >>] = fs0[<< <<"PDF">>, a_pdf >>]

\* ---------------------------------------------------------------------
\* C22: at every point of a run the records have pairwise distinct
\* sources and carry pairwise distinct entries, and no source of a record
\* is the destination of an earlier record or beneath it; in particular
\* no record of the legacy migration takes what the top-level pass put
\* in place; and no remap target is a legacy folder or inside one.
MovedEntry(i) == trace[i].pre[trace[i].src]

C22_MovedAtMostOnce ==
  /\ Len(trace) = Len(moves)
  /\ \A i, j \in DOMAIN moves :
        i < j => /\ moves[i][1] # moves[j][1]
                 /\ MovedEntry(i) # MovedEntry(j)
                 /\ ~IsPrefix(moves[i][2], moves[j][1])
  /\ \A i \in DOMAIN moves : exists(fs0, moves[i][1]) /\ MovedEntry(i) = fs0[moves[i][1]]
  /\ \A n \in LegacyNames, i \in DOMAIN moves : ~IsPrefix(<<n>>, moves[i][2])

C22_Witness ==
  /\ pc = "done"
  /\ \E i, j \in DOMAIN trace :
        /\ trace[i].phase = "top" /\ trace[j].phase = "legacy"
        /\ parent(trace[i].dst) = parent(trace[j].dst)
        /\ is_dir(fs0, trace[j].src)
        /\ iterdir(fs0, trace[j].src) # {}

\* ---------------------------------------------------------------------
\* C23: the pairs preview_organization returns have pairwise distinct
\* destinations, and once organize_folder, run on the previewed folder
\* with the same listing order, is through its top-level pass, its
\* records of top-level files are exactly the previewed pairs.
TopRecords == SelectSeq(moves, IsTopRecord)

C23_PreviewPredicts ==
  app.pc = "done" =>
    /\ \A i, j \in DOMAIN app.moves : i # j => app.moves[i][2] # app.moves[j][2]
    /\ pc \in {"legacy", "items", "done"} => TopRecords = app.moves

\* C24: while preview_organization runs and after it has returned, as long
\* as organize_folder has not been started, the filesystem is the one the
\* preview was called on: no folder created, nothing moved or removed; and
\* the preview pairs every top-level file with a path beneath the folder
\* it is routed to.
C24_PreviewLeavesFilesystem ==
  /\ pc = "idle" => fs = fs0
  /\ (pc = "idle" /\ app.pc = "done")
       => /\ {app.moves[i][1] : i \in DOMAIN app.moves} = TopLevelFiles
          /\ \A i \in DOMAIN app.moves :
                parent(app.moves[i][2]) = RoutedFolder(app.moves[i][1])

C24_Witness ==
  /\ pc = "idle" /\ app.pc = "done"
  /\ Len(app.moves) >= 2
  /\ \E i \in DOMAIN app.moves : ~exists(fs, parent(app.moves[i][2]))
  /\ \E i \in DOMAIN app.moves : name_of(app.moves[i][2]) # name_of(app.moves[i][1])


\* the worker threads that have been started and have not yet ended
LiveWorkers == {p \in Invocations : procs[p].pc \notin {"unstarted", "finished"}}

\* the worker threads inside their call of organize_folder
InOrganizeFolder ==
  {p \in Invocations :
     procs[p].pc \notin {"unstarted", "done", "raised", "inserted",
                          "snapshot", "saved", "finished"}}

\* C25: in the Riot variant at most one worker thread is alive at a time, so
\* organize_folder never executes twice concurrently: a worker is alive only
\* while is_organizing is set, and an on_organize call made while the flag is
\* set starts no thread and leaves every invocation as it was.
C25_OneWorkerAtATime ==
  /\ [](Cardinality(LiveWorkers) <= 1)
  /\ [](Cardinality(InOrganizeFolder) <= 1)
  /\ [](LiveWorkers # {} => app.is_organizing)
  /\ [][(app.is_organizing /\ app'.clicks = app.clicks + 1)
          => (procs' = procs /\ fs' = fs /\ app'.is_organizing)]_vars

\* a call was rejected while the first worker ran, and both workers have ended
C25_Witness ==
  /\ pc = "app"
  /\ app.busy >= 1
  /\ \A p \in Invocations : procs[p].pc = "finished"


\* C26: in the Riot variant every accepted on_organize is followed by the
\* reset of is_organizing, whether organize_folder returns or raises: under
\* fair scheduling of the worker the flag always falls again, it is clear
\* whenever no worker is alive, and the next on_organize is then accepted.
C26_BusyEnds ==
  /\ (app.is_organizing ~> ~app.is_organizing)
  /\ [](LiveWorkers = {} => ~app.is_organizing)
  /\ []((~app.is_organizing /\ app.main = "idle" /\ app.clicks < MaxClicks
          /\ procs[2].pc = "unstarted") => ENABLED OnOrganizeAccepted)

\* the first worker's organize_folder raised on the file named Other, the
\* flag fell, and a second on_organize has been accepted
C26_Witness ==
  /\ pc = "app"
  /\ exists(fs0, <<<<"Other">>>>) /\ fs0[<<<<"Other">>>>].kind = "file"
  /\ procs[1].pc = "finished" /\ procs[1].moves = <<>>
  /\ procs[2].pc = "idle"
  /\ app.is_organizing


\* no add_history, clear_history or save_history call is in progress
HistoryQuiescent ==
  /\ app.main = "idle"
  /\ \A p \in Invocations : procs[p].pc \notin {"inserted", "snapshot"}

\* C27: in the Riot variant, once the worker's add_history and the main
\* thread's clear_history have both completed, the history file holds the
\* serialization of the in-memory history.
C27_FileIsHistory ==
  (pc = "app" /\ HistoryQuiescent) => app.file = serializable(app.history)


\* the order numbers of the runs of a history
RunLabels(h) == [i \in DOMAIN h |-> h[i].label]

\* C28: the history holds at most 20 runs in organize_gui.py and at most 50 in
\* organize_gui_riot.py and is newest-first; add_history puts the new run at
\* index 0, keeps the other runs in their order and drops only the oldest;
\* load_history keeps the newest runs of the file in their order.
C28_HistoryBounded ==
  /\ [](pc = "history" =>
          /\ Len(app.history) <= history_cap(app.variant)
          /\ \A i, j \in DOMAIN app.history :
                i < j => app.history[i].label > app.history[j].label)
  /\ [][(pc = "history" /\ app'.n = app.n + 1) =>
          /\ app'.history[1] = Entry(app'.n)
          /\ IsPrefix(Tail(app'.history), app.history)
          /\ Len(app'.history) =
               (IF Len(app.history) < history_cap(app.variant)
                  THEN Len(app.history) + 1 ELSE history_cap(app.variant))]_vars
  /\ [][(pc = "history" /\ app'.last = "load") =>
          /\ IsPrefix(RunLabels(app'.history), RunLabels(app.saved))
          /\ Len(app'.history) =
               (IF Len(app.saved) < history_cap(app'.variant)
                  THEN Len(app.saved) ELSE history_cap(app'.variant))]_vars

\* the Riot history is full after more than 50 runs, its oldest run dropped,
\* and the newest run is at index 0
C28_Witness ==
  /\ pc = "history"
  /\ app.variant = "riot" /\ app.last = "add"
  /\ app.n > HISTORY_CAP_RIOT
  /\ Len(app.history) = HISTORY_CAP_RIOT
  /\ app.history[1].label = app.n
  /\ app.history[HISTORY_CAP_RIOT].label = app.n - HISTORY_CAP_RIOT + 1

\* C29: a history file written by save_history of either variant is read by
\* load_history of either variant into the runs that were saved (label, base
\* and the ordered moves), cut to the reader's cap.
C29_RoundTrip ==
  (pc = "history" /\ app.file # NoFile) =>
     \A v \in Variants :
        load_history(v, app.file) = truncated(app.saved, history_cap(v))

\* a Riot file of more than 20 runs with moves has been read by organize_gui.py
C29_Witness ==
  /\ pc = "history"
  /\ app.file.fmt = "list" /\ Len(app.file.runs) > HISTORY_CAP_GUI
  /\ app.variant = "gui" /\ app.last = "load"
  /\ Len(app.history) = HISTORY_CAP_GUI
  /\ app.history[1].moves # <<>>

\* a file of organize_gui.py (theme and history) has been read by the Riot variant
C29_WitnessGuiFile ==
  /\ pc = "history"
  /\ app.file.fmt = "dict" /\ app.file.history # <<>>
  /\ app.variant = "riot" /\ app.last = "load"
  /\ app.history = app.saved


\* the top-level files of the folder organize_folder is called on
TopFiles == {p \in iterdir(fs0, base_folder) : ~is_dir(fs0, p)}

\* the number of moves made of the entry p
TimesMoved(p) == Cardinality({i \in DOMAIN trace : trace[i].src = p})

\* the counters the resolver went through for the move t: none when the
\* wanted path was free, else 1..c for the returned candidate c
CounterOf(t) ==
  {c \in 1..(Cardinality(iterdir(t.pre, parent(t.want))) + 1) :
     t.dst \in {file_candidate(t.want, c), dir_candidate(t.want, c)}}

\* C30: organize_folder terminates on every folder, returning or raising; a
\* run that returns has moved every top-level file and every child of a
\* legacy folder exactly once and nothing else; every destination the
\* resolver returned is the wanted path or a candidate whose counter is at
\* most the number of entries the destination folder held.
C30_Terminates ==
  /\ <>Ended
  /\ [](pc = "done" =>
          /\ \A p \in TopFiles \cup LegacyChildren : TimesMoved(p) = 1
          /\ Len(trace) = Cardinality(TopFiles \cup LegacyChildren))
  /\ [](\A i \in DOMAIN trace :
          \/ trace[i].dst = trace[i].want
          \/ \E c \in CounterOf(trace[i]) :
                /\ c <= Cardinality(iterdir(trace[i].pre, parent(trace[i].want)))
                /\ exists(trace[i].pre, trace[i].want))

\* the run returned after a move that needed counter 2 in a folder of two
\* entries, and after a legacy child was moved
C30_Witness ==
  /\ pc = "done"
  /\ \E i \in DOMAIN trace :
        /\ trace[i].dst = file_candidate(trace[i].want, 2)
        /\ Cardinality(iterdir(trace[i].pre, parent(trace[i].want))) = 2
  /\ \E j \in DOMAIN trace : trace[j].phase = "legacy"

====
